---- MODULE Spec2Model ----
(***************************************************************************)
(* A model of the pybb forum models (src/pybb/models/base.py): the tables  *)
(* Forum, Topic, Post, PostDeletion, Subscription, TopicRedirection,       *)
(* TopicReadTracker and ForumReadTracker, and the model methods that keep  *)
(* the denormalised counters, the moderation state and the read trackers.  *)
(*                                                                         *)
(* A table is a function from the primary keys of its rows to the rows, or *)
(* a set of rows when the rows are only ever filtered.  A model method is  *)
(* an operator from tables to tables; an action is one committed call.     *)
(* Every query of the source is evaluated on the tables as they are at the *)
(* point of the call where the source runs it.                             *)
(***************************************************************************)
EXTENDS Integers, FiniteSets, Sequences, TLC

VARIABLES forum, topic, post, postdeletion, subscription, topicredirection,
          topicreadtracker, forumreadtracker, moderator, moderator_ids,
          now, last, pc, local

vars == <<forum, topic, post, postdeletion, subscription, topicredirection,
          topicreadtracker, forumreadtracker, moderator, moderator_ids,
          now, last, pc, local>>

(***************************************************************************)
(* Values                                                                  *)
(***************************************************************************)

\* NULL of a nullable column (null=True); primary keys and times start at 1.
None == 0

\* BaseTopic.MODERATION_*
MODERATION_IS_CLEAN == 0
MODERATION_IS_IN_MODERATION == 1
MODERATION_HAS_POSTS_IN_MODERATION == 2

\* BaseTopicRedirection.TYPE_PERMANENT_REDIRECT
TYPE_PERMANENT_REDIRECT == 1

\* The most posts saved, the latest clock value Tick reaches, the most
\* forums, the longest list of forums handed to a call.
MaxPosts == 2
MaxNow == 3
MaxForums == 3
MaxList == 2

ForumIds == 1..MaxForums
TopicIds == {1, 2}
UserIds == {1, 2}
PostIds == 1..MaxPosts

\* The users a call is made for: request.user is an AnonymousUser (pk None)
\* or a row of the user table with its is_staff and is_superuser flags.
AnonymousUser == [pk |-> None, is_authenticated |-> FALSE, is_staff |-> FALSE,
                  is_superuser |-> FALSE]
Requesters == {AnonymousUser}
               \cup {[pk |-> u, is_authenticated |-> TRUE, is_staff |-> s,
                      is_superuser |-> FALSE] : u \in {1}, s \in BOOLEAN}
               \cup {[pk |-> 2, is_authenticated |-> TRUE, is_staff |-> FALSE,
                      is_superuser |-> TRUE]}

RECURSIVE SetSum(_, _)
\* SUM(col) over the rows S, col given as a function of the row key.
SetSum(S, col) ==
    IF S = {} THEN 0
    ELSE LET x == CHOOSE y \in S : TRUE
         IN col[x] + SetSum(S \ {x}, col)

\* get_moderator_ids_by_forum has not been called yet: lru_cache holds
\* nothing.  Once called it holds the Moderator rows it read.
NoCache == [cached |-> FALSE, rows |-> {}]

\* The record of the last committed call: the method, its arguments and
\* what it returned or found.
NoCall == [op |-> "none", forum |-> None, topic |-> None, post |-> None,
           other |-> None, user |-> None, flag |-> FALSE, result |-> FALSE,
           raised |-> FALSE, consistent |-> FALSE, visible |-> FALSE]

Call(op) == [NoCall EXCEPT !.op = op]

(***************************************************************************)
(* Post queries                                                            *)
(***************************************************************************)

\* topic.posts: the rows of Post whose topic is t.
TopicPosts(P, t) == {p \in DOMAIN P : P[p].topic = t}

\* VisiblePosts with the on_moderation filter forgotten.
VisiblePostsNotDeleted(P, t) ==
    {p \in TopicPosts(P, t) : P[p].deleted = FALSE}

\* PostQuerySetMixin.visible(join=False) on topic.posts.
VisiblePosts(P, t) ==
    {p \in TopicPosts(P, t) : P[p].on_moderation = FALSE /\ P[p].deleted = FALSE}

\* Greatest('created', 'updated'): PostgreSQL's GREATEST skips NULL.
LastSaved(row) ==
    IF row.updated = None THEN row.created
    ELSE IF row.updated > row.created THEN row.updated ELSE row.created

\* BaseTopic.get_last_post: the visible post of the topic saved last.
TopicGetLastPost(P, t) ==
    LET vis == VisiblePosts(P, t)
    IN IF vis = {} THEN None
       ELSE CHOOSE p \in vis : \A q \in vis : LastSaved(P[q]) <= LastSaved(P[p])

\* TopicGetFirstPost taken over the visible posts only.
TopicGetFirstPostVisible(P, t) ==
    LET vis == {p \in TopicPosts(P, t) : ~P[p].on_moderation /\ ~P[p].deleted}
    IN IF vis = {} THEN None
       ELSE CHOOSE p \in vis : \A q \in vis : P[p].created <= P[q].created

\* BaseTopic.get_first_post(force_refresh=True): posts.order_by('created')[0]
\* over every post of the topic, deleted and moderated ones included.
TopicGetFirstPost(P, t) ==
    LET all == TopicPosts(P, t)
    IN IF all = {} THEN None
       ELSE CHOOSE p \in all : \A q \in all : P[p].created <= P[q].created

\* posts.filter(on_moderation=True, deleted=False).count()
ModeratedCount(P, t) ==
    Cardinality({p \in TopicPosts(P, t) :
                    P[p].on_moderation = TRUE /\ P[p].deleted = FALSE})

\* ModerationState that never finds the topic in moderation.
ModerationStateNeverHidden(P, t, post_count, first_post) ==
    IF ModeratedCount(P, t) # 0
    THEN MODERATION_HAS_POSTS_IN_MODERATION
    ELSE MODERATION_IS_CLEAN

\* The moderation state BaseTopic.update_counters computes.
ModerationState(P, t, post_count, first_post) ==
    IF ModeratedCount(P, t) # 0
    THEN IF post_count = 0 \/ P[first_post].on_moderation = TRUE
         THEN MODERATION_IS_IN_MODERATION
         ELSE MODERATION_HAS_POSTS_IN_MODERATION
    ELSE MODERATION_IS_CLEAN

\* The instance of BaseTopic.update_counters after its queries: row is the
\* instance before the call, P the Post table.
TopicCounted(row, P, t) ==
    LET post_count == Cardinality(VisiblePosts(P, t))
        member_count == Cardinality({P[p].user : p \in VisiblePosts(P, t)})
        last_post == TopicGetLastPost(P, t)
        first_post == TopicGetFirstPost(P, t)
        r1 == [row EXCEPT !.post_count = post_count,
                          !.member_count = member_count]
        r2 == IF last_post # None
              THEN [r1 EXCEPT !.updated = IF P[last_post].updated # None
                                          THEN P[last_post].updated
                                          ELSE P[last_post].created,
                              !.last_post = last_post]
              ELSE r1
        r3 == IF first_post # None
              THEN [r2 EXCEPT !.first_post = first_post]
              ELSE r2
    IN [r3 EXCEPT !.on_moderation =
                      ModerationState(P, t, post_count, first_post)]

\* TopicSaveCounters that does not write the poll column.
TopicSaveCountersKeepingPoll(T, t, inst) ==
    [T EXCEPT ![t].post_count = inst.post_count,
              ![t].member_count = inst.member_count,
              ![t].updated = inst.updated,
              ![t].last_post = inst.last_post,
              ![t].first_post = inst.first_post,
              ![t].on_moderation = inst.on_moderation]

\* self.save(update_fields=[...]) of BaseTopic.update_counters: the named
\* columns of the stored row are set from the instance.
TopicSaveCounters(T, t, inst) ==
    [T EXCEPT ![t].poll = inst.poll,
              ![t].post_count = inst.post_count,
              ![t].member_count = inst.member_count,
              ![t].updated = inst.updated,
              ![t].last_post = inst.last_post,
              ![t].first_post = inst.first_post,
              ![t].on_moderation = inst.on_moderation]

(***************************************************************************)
(* Topic and forum queries                                                 *)
(***************************************************************************)

\* TopicQuerySetMixin.visible as a row predicate.
TopicIsVisible(row) ==
    /\ row.deleted = FALSE
    /\ row.redirect = FALSE
    /\ row.on_moderation # MODERATION_IS_IN_MODERATION

\* Topic.objects.visible().filter(forum_id=f)
VisibleTopics(T, f) == {t \in DOMAIN T : T[t].forum = f /\ TopicIsVisible(T[t])}

\* forum.forums: the direct child forums.
ChildForums(F, f) == {c \in DOMAIN F : F[c].forum_id = f}

RECURSIVE Ancestors(_, _)
\* The forums above f, following forum_id to the root.
Ancestors(F, f) ==
    IF F[f].forum_id = None \/ F[f].forum_id = f THEN {}
    ELSE {F[f].forum_id} \cup Ancestors(F, F[f].forum_id)

\* topic.forum_ids of ParentForumBase: the topic's forum and the forums above.
TopicForumIds(F, T, t) == {T[t].forum} \cup Ancestors(F, T[t].forum)

\* Post.objects.visible(join=True).filter(topic__forum_ids__contains=[f])
ForumVisiblePosts(F, T, P, f) ==
    {p \in DOMAIN P :
        /\ P[p].on_moderation = FALSE
        /\ P[p].deleted = FALSE
        /\ T[P[p].topic].deleted = FALSE
        /\ T[P[p].topic].redirect = FALSE
        /\ f \in TopicForumIds(F, T, P[p].topic)}

\* ForumComputed that leaves the child forums out of the sums.
ForumComputedOwnTopics(F, T, P, f) ==
    LET vis == VisibleTopics(T, f)
    IN [F[f] EXCEPT
          !.post_count = SetSum(vis, [t \in vis |-> T[t].post_count]),
          !.member_count =
              Cardinality({P[p].user : p \in ForumVisiblePosts(F, T, P, f)}),
          !.topic_count = Cardinality(vis),
          !.forum_count = Cardinality(ChildForums(F, f))]

\* The row of forum f after the queries and assignments of BaseForum.compute.
ForumComputed(F, T, P, f) ==
    LET kids == ChildForums(F, f)
        vis == VisibleTopics(T, f)
    IN [F[f] EXCEPT
          !.post_count = SetSum(vis, [t \in vis |-> T[t].post_count])
                         + SetSum(kids, [c \in kids |-> F[c].post_count]),
          !.member_count =
              Cardinality({P[p].user : p \in ForumVisiblePosts(F, T, P, f)}),
          !.topic_count = Cardinality(vis)
                          + SetSum(kids, [c \in kids |-> F[c].topic_count]),
          !.forum_count = Cardinality(kids)
                          + SetSum(kids, [c \in kids |-> F[c].forum_count])]

\* ForumCompute without the call on the parent forum.
ForumComputeOnlySelf(F, T, P, f) ==
    LET row == ForumComputed(F, T, P, f)
    IN [F EXCEPT ![f].post_count = row.post_count,
                 ![f].member_count = row.member_count,
                 ![f].topic_count = row.topic_count,
                 ![f].forum_count = row.forum_count]

RECURSIVE ForumCompute(_, _, _, _)
\* BaseForum.compute(commit=True): the forum is recomputed and saved, then
\* its parent, up to the root.
ForumCompute(F, T, P, f) ==
    LET row == ForumComputed(F, T, P, f)
        F1 == [F EXCEPT ![f].post_count = row.post_count,
                        ![f].member_count = row.member_count,
                        ![f].topic_count = row.topic_count,
                        ![f].forum_count = row.forum_count]
    IN IF F[f].forum_id # None /\ F[f].forum_id # f
       THEN ForumCompute(F1, T, P, F[f].forum_id)
       ELSE F1

\* order_by('-updated')[0] over a set of topics: PostgreSQL sorts NULL
\* first in descending order.
LatestUpdated(T, S) ==
    IF \E t \in S : T[t].updated = None
    THEN CHOOSE t \in S : T[t].updated = None
    ELSE CHOOSE t \in S : \A s \in S : T[s].updated <= T[t].updated

\* BaseForum.get_last_post: [post, topic, raised], the post, the topic it
\* is handed back with (post.topic), and whether the call raised: when the
\* latest topic has a poll and the latest topic without a poll has no
\* last_post, other.created is an AttributeError on None.
ForumGetLastPost(T, P, f) ==
    LET vis == VisibleTopics(T, f)
        nopoll == {t \in vis : T[t].poll = None}
        first == IF vis = {} THEN None ELSE LatestUpdated(T, vis)
        fpost == IF first = None THEN None ELSE T[first].last_post
        other == IF nopoll = {} THEN None
                 ELSE T[LatestUpdated(T, nopoll)].last_post
    IN IF fpost # None /\ T[first].poll # None /\ nopoll # {}
       THEN IF other = None
            THEN [post |-> None, topic |-> None, raised |-> TRUE]
            ELSE IF P[other].created > P[fpost].created
            THEN [post |-> other, topic |-> P[other].topic, raised |-> FALSE]
            ELSE [post |-> fpost, topic |-> first, raised |-> FALSE]
       ELSE [post |-> fpost, topic |-> first, raised |-> FALSE]

\* Whether BaseForum.update_counters on forum f raises (in get_last_post,
\* before anything is written).
ForumUpdateRaises(T, P, f) == ForumGetLastPost(T, P, f).raised

\* ForumUpdateCounters that empties updated, last_post and last_topic when
\* get_last_post finds no post.
ForumUpdateCountersClearing(F, T, P, f, inst) ==
    LET lp == ForumGetLastPost(T, P, f)
        F1 == ForumCompute(F, T, P, f)
    IN IF lp.raised THEN F
       ELSE [F1 EXCEPT ![f].updated = IF lp.post # None
                                      THEN P[lp.post].created ELSE None,
                       ![f].last_post = lp.post,
                       ![f].last_topic = lp.topic]

\* BaseForum.update_counters(commit=True) on the instance inst of forum f.
ForumUpdateCounters(F, T, P, f, inst) ==
    LET lp == ForumGetLastPost(T, P, f)
        i1 == IF lp.post # None
              THEN [inst EXCEPT !.updated = P[lp.post].created,
                                !.last_post = lp.post,
                                !.last_topic = lp.topic]
              ELSE inst
        F1 == ForumCompute(F, T, P, f)
    IN IF lp.raised THEN F
       ELSE [F1 EXCEPT ![f].updated = i1.updated,
                       ![f].last_post = i1.last_post,
                       ![f].last_topic = i1.last_topic]

\* BaseTopic.update_counters(commit=True, update_forum=True) on the instance
\* inst of topic t: [topic, forum], the two tables after the call.
TopicUpdateCounters(F, T, P, t, inst, finst) ==
    LET T1 == TopicSaveCounters(T, t, TopicCounted(inst, P, t))
    IN [topic |-> T1,
        forum |-> ForumUpdateCounters(F, T1, P, inst.forum, finst),
        raised |-> ForumUpdateRaises(T1, P, inst.forum)]

(***************************************************************************)
(* The invariants of the data model (spec, section 3), as predicates of    *)
(* the tables.                                                             *)
(***************************************************************************)

\* The number of posts of topic t with deleted=False and on_moderation=False.
CountVisible(P, t) ==
    Cardinality({p \in DOMAIN P : P[p].topic = t /\ ~P[p].deleted
                                   /\ ~P[p].on_moderation})

\* The number of distinct users among those posts.
CountMembers(P, t) ==
    Cardinality({P[p].user : p \in {q \in DOMAIN P :
                    P[q].topic = t /\ ~P[q].deleted /\ ~P[q].on_moderation}})

\* Topic t is in Topic.visible().
InTopicVisible(T, t) ==
    ~T[t].deleted /\ ~T[t].redirect /\ T[t].on_moderation # 1

RECURSIVE SumOver(_, _, _)
\* The sum of column c of table X over the keys S.
SumOver(X, S, c) ==
    IF S = {} THEN 0
    ELSE LET k == CHOOSE k \in S : TRUE
         IN X[k][c] + SumOver(X, S \ {k}, c)

\* The counters of topic t equal the aggregates over its visible posts.
TopicConsistent(T, P, t) ==
    /\ T[t].post_count = CountVisible(P, t)
    /\ T[t].member_count = CountMembers(P, t)

\* The counts of forum f equal the sums over its child forums and its
\* visible topics.
ForumConsistent(F, T, f) ==
    LET kids == {c \in DOMAIN F : F[c].forum_id = f}
        tops == {t \in DOMAIN T : T[t].forum = f /\ InTopicVisible(T, t)}
    IN /\ F[f].post_count = SumOver(T, tops, "post_count")
                            + SumOver(F, kids, "post_count")
       /\ F[f].topic_count = Cardinality(tops) + SumOver(F, kids, "topic_count")
       /\ F[f].forum_count = Cardinality(kids) + SumOver(F, kids, "forum_count")

\* Every counter of every topic and forum is consistent.
AllConsistent(F, T, P) ==
    /\ \A t \in DOMAIN T : TopicConsistent(T, P, t)
    /\ \A f \in DOMAIN F : ForumConsistent(F, T, f)

(***************************************************************************)
(* Committed calls on posts and topics                                     *)
(***************************************************************************)

NewForum(parent, staff, hidden) ==
    [forum_id |-> parent, staff |-> staff, hidden |-> hidden,
     post_count |-> 0, member_count |-> 0, topic_count |-> 0,
     forum_count |-> 0, updated |-> None, last_post |-> None,
     last_topic |-> None]

NewTopic(f, u) ==
    [forum |-> f, user |-> u, deleted |-> FALSE, redirect |-> FALSE,
     post_count |-> 0, member_count |-> 0,
     on_moderation |-> MODERATION_IS_CLEAN, updated |-> None,
     first_post |-> None, last_post |-> None, poll |-> None]

NewPost(t, u, created, on_moderation) ==
    [topic |-> t, user |-> u, created |-> created, updated |-> None,
     on_moderation |-> on_moderation, deleted |-> FALSE]

\* BasePost.save of a new post (pk None, created None) by user u in topic
\* t.  tznow() is the clock, which has moved on when the call returns.
PostSaveNew(t, u, mod) ==
    LET id == Cardinality(DOMAIN post) + 1
        created_at == now
        P1 == post @@ (id :> NewPost(t, u, created_at, mod))
        f == topic[t].forum
        inst == [topic[t] EXCEPT !.updated = created_at]
        finst == [forum[f] EXCEPT !.updated = created_at]
        r == TopicUpdateCounters(forum, topic, P1, t, inst, finst)
    IN /\ id \in PostIds
       /\ post' = P1
       /\ topic' = r.topic
       /\ forum' = r.forum
       /\ now' = now + 1
       /\ last' = [Call("Post.save") EXCEPT
                      !.topic = t, !.flag = TRUE, !.result = ~mod,
                      !.raised = r.raised,
                      !.consistent = AllConsistent(forum, topic, post),
                      !.visible = TopicIsVisible(topic[t])]
       /\ UNCHANGED <<moderator, moderator_ids,
                      postdeletion, subscription, topicredirection,
                      topicreadtracker, forumreadtracker, pc, local>>

\* BasePost.save of a stored post whose on_moderation was set to mod (a
\* moderator's approval, or a post sent back to moderation).
PostSaveStored(p, mod) ==
    LET t == post[p].topic
        f == topic[t].forum
        P1 == [post EXCEPT ![p].on_moderation = mod]
        r == TopicUpdateCounters(forum, topic, P1, t, topic[t], forum[f])
    IN /\ post[p].on_moderation # mod
       /\ post' = P1
       /\ topic' = r.topic
       /\ forum' = r.forum
       /\ last' = [Call("Post.save") EXCEPT
                      !.topic = t, !.result = ~mod, !.raised = r.raised]
       /\ UNCHANGED <<moderator, moderator_ids,
                      postdeletion, subscription, topicredirection,
                      topicreadtracker, forumreadtracker, now, pc, local>>

\* BaseTopic.mark_as_deleted(commit=True, update=True): [topic, forum, post].
TopicMarkAsDeleted(F, T, P, t) ==
    LET P1 == [p \in DOMAIN P |->
                  IF p \in VisiblePosts(P, t)
                  THEN [P[p] EXCEPT !.deleted = TRUE] ELSE P[p]]
        T1 == [T EXCEPT ![t].deleted = TRUE]
        f == T[t].forum
    IN [post |-> P1, topic |-> T1,
        forum |-> ForumUpdateCounters(F, T1, P1, f, F[f]),
        raised |-> ForumUpdateRaises(T1, P1, f)]

\* BaseTopic.mark_as_undeleted(commit=True, update=True), D the
\* PostDeletion table: [topic, forum, post].
TopicMarkAsUndeleted(F, T, P, D, t) ==
    LET post_ids == {d.post : d \in {e \in D : P[e.post].topic = t
                                              /\ e.post # T[t].first_post}}
        P1 == [p \in DOMAIN P |->
                  IF p \in TopicPosts(P, t) /\ p \notin post_ids
                  THEN [P[p] EXCEPT !.deleted = FALSE] ELSE P[p]]
        T1 == [T EXCEPT ![t].deleted = FALSE]
        f == T[t].forum
    IN [post |-> P1, topic |-> T1,
        forum |-> ForumUpdateCounters(F, T1, P1, f, F[f]),
        raised |-> ForumUpdateRaises(T1, P1, f)]

\* HeadPostId taken over every post of the topic.
HeadPostIdOfAll(P, t) == TopicGetFirstPost(P, t)

\* posts.visible(join=False).order_by('created')[0].id, None for IndexError.
HeadPostId(P, t) ==
    LET vis == VisiblePosts(P, t)
    IN IF vis = {} THEN None
       ELSE CHOOSE p \in vis : \A q \in vis : P[p].created <= P[q].created

\* Topic.mark_as_deleted() called for topic t.
TopicDelete(t) ==
    LET r == TopicMarkAsDeleted(forum, topic, post, t)
    IN /\ post' = r.post
       /\ topic' = r.topic
       /\ forum' = r.forum
       /\ last' = [Call("Topic.mark_as_deleted") EXCEPT
                      !.topic = t, !.raised = r.raised]
       /\ UNCHANGED <<moderator, moderator_ids,
                      postdeletion, subscription, topicredirection,
                      topicreadtracker, forumreadtracker, now, pc, local>>

\* Topic.mark_as_undeleted() called for topic t.
TopicUndelete(t) ==
    LET r == TopicMarkAsUndeleted(forum, topic, post, postdeletion, t)
    IN /\ post' = r.post
       /\ topic' = r.topic
       /\ forum' = r.forum
       /\ last' = [Call("Topic.mark_as_undeleted") EXCEPT
                      !.topic = t, !.raised = r.raised]
       /\ UNCHANGED <<moderator, moderator_ids,
                      postdeletion, subscription, topicredirection,
                      topicreadtracker, forumreadtracker, now, pc, local>>

\* BasePost.mark_as_deleted(commit=True, user=u) on post p; u is None when
\* no user is given.  PostDeletion.post is one-to-one, so a user is given
\* only for a post that has no PostDeletion row.
PostMarkAsDeleted(p, u) ==
    LET t == post[p].topic
        D1 == IF u # None THEN postdeletion \cup {[post |-> p, user |-> u]}
              ELSE postdeletion
        head == HeadPostId(post, t)
        r == IF head # None /\ head = p
             THEN TopicMarkAsDeleted(forum, topic, post, t)
             ELSE [post |-> post, topic |-> topic, forum |-> forum,
                   raised |-> FALSE]
    IN /\ u # None => \A d \in postdeletion : d.post # p
       /\ postdeletion' = D1
       /\ post' = IF r.raised THEN r.post
                  ELSE [r.post EXCEPT ![p].deleted = TRUE]
       /\ topic' = r.topic
       /\ forum' = r.forum
       /\ last' = [Call("Post.mark_as_deleted") EXCEPT
                      !.post = p, !.flag = (head # None /\ head = p),
                      !.raised = r.raised]
       /\ UNCHANGED <<moderator, moderator_ids,
                      subscription, topicredirection, topicreadtracker,
                      forumreadtracker, now, pc, local>>

\* BasePost.mark_as_undeleted(commit=True) on post p.
PostMarkAsUndeleted(p) ==
    LET t == post[p].topic
        D1 == {d \in postdeletion : d.post # p}
        P1 == [post EXCEPT ![p].deleted = FALSE]
        head == HeadPostId(P1, t)
        r == IF head # None /\ head = p
             THEN TopicMarkAsUndeleted(forum, topic, P1, D1, t)
             ELSE [post |-> P1, topic |-> topic, forum |-> forum,
                   raised |-> FALSE]
    IN /\ postdeletion' = D1
       /\ post' = r.post
       /\ topic' = r.topic
       /\ forum' = r.forum
       /\ last' = [Call("Post.mark_as_undeleted") EXCEPT
                      !.post = p, !.flag = (head # None /\ head = p),
                      !.raised = r.raised]
       /\ UNCHANGED <<moderator, moderator_ids,
                      subscription, topicredirection, topicreadtracker,
                      forumreadtracker, now, pc, local>>

\* TopicAbsorbPosts that moves the visible posts only.
TopicAbsorbVisiblePosts(P, a, b) ==
    [p \in DOMAIN P |->
        IF p \in VisiblePosts(P, b) THEN [P[p] EXCEPT !.topic = a] ELSE P[p]]

\* topic.posts.all().update(topic=self) of a.absorb(b)
TopicAbsorbPosts(P, a, b) ==
    [p \in DOMAIN P |->
        IF P[p].topic = b THEN [P[p] EXCEPT !.topic = a] ELSE P[p]]

\* BaseTopic.absorb: a.absorb(b) with no redirection_type and no expiry.
\* TopicRedirection.from_topic is one-to-one, so b is a topic that no
\* redirection leaves yet.
TopicAbsorb(a, b) ==
    LET P1 == TopicAbsorbPosts(post, a, b)
        S1 == {IF s.topic = b THEN [s EXCEPT !.topic = a] ELSE s :
                  s \in subscription}
        poll == topic[b].poll
        binst0 == IF poll # None THEN [topic[b] EXCEPT !.poll = None]
                  ELSE topic[b]
        ainst == IF poll # None THEN [topic[a] EXCEPT !.poll = poll]
                 ELSE topic[a]
        T1 == IF poll # None THEN [topic EXCEPT ![a].poll = poll] ELSE topic
        R1 == {IF r.topic = b THEN [r EXCEPT !.topic = a] ELSE r :
                  r \in topicreadtracker}
        binst == [binst0 EXCEPT !.redirect = TRUE]
        T2 == [T1 EXCEPT ![b].redirect = TRUE]
        X1 == topicredirection
              \cup {[from_topic |-> b, to_topic |-> a,
                     type |-> TYPE_PERMANENT_REDIRECT, expired |-> None]}
        fb == topic[b].forum
        fa == topic[a].forum
        rb == TopicUpdateCounters(forum, T2, P1, b, binst, forum[fb])
        ra == TopicUpdateCounters(rb.forum, rb.topic, P1, a, ainst,
                                  rb.forum[fa])
    IN /\ a # b
       /\ \A x \in topicredirection : x.from_topic # b
       /\ post' = P1
       /\ subscription' = S1
       /\ topicreadtracker' = R1
       /\ topicredirection' = X1
       /\ topic' = IF rb.raised THEN rb.topic ELSE ra.topic
       /\ forum' = IF rb.raised THEN rb.forum ELSE ra.forum
       /\ last' = [Call("Topic.absorb") EXCEPT
                      !.topic = a, !.other = b,
                      !.flag = (R1 # topicreadtracker),
                      !.raised = rb.raised \/ ra.raised]
       /\ UNCHANGED <<moderator, moderator_ids,
                      postdeletion, forumreadtracker, now, pc, local>>

\* Topic.update_counters() called for topic t.
TopicRecount(t) ==
    LET f == topic[t].forum
        r == TopicUpdateCounters(forum, topic, post, t, topic[t], forum[f])
    IN /\ topic' = r.topic
       /\ forum' = r.forum
       /\ last' = [Call("Topic.update_counters") EXCEPT
                      !.topic = t, !.raised = r.raised]
       /\ UNCHANGED <<moderator, moderator_ids,
                      post, postdeletion, subscription, topicredirection,
                      topicreadtracker, forumreadtracker, now, pc, local>>

\* Forum.compute() called for forum f.
ForumRecompute(f) ==
    /\ forum' = ForumCompute(forum, topic, post, f)
    /\ last' = [Call("Forum.compute") EXCEPT !.forum = f]
    /\ UNCHANGED <<moderator, moderator_ids,
                   topic, post, postdeletion, subscription, topicredirection,
                   topicreadtracker, forumreadtracker, now, pc, local>>

(***************************************************************************)
(* Posts of one topic in a fixed forum tree: forum 1 is the root, the      *)
(* other forums are its children, and topic 1 is in forum 2.               *)
(***************************************************************************)

Init ==
    /\ forum = [f \in ForumIds |->
                   IF f = 1 THEN [NewForum(None, FALSE, FALSE)
                                     EXCEPT !.forum_count = MaxForums - 1]
                   ELSE NewForum(1, FALSE, FALSE)]
    /\ topic = (1 :> NewTopic(2, 1))
    /\ post = <<>>
    /\ postdeletion = {}
    /\ subscription = {}
    /\ topicredirection = {}
    /\ topicreadtracker = {}
    /\ forumreadtracker = {}
    /\ moderator = {}
    /\ moderator_ids = NoCache
    /\ now = 1
    /\ last = NoCall
    /\ pc = <<>>
    /\ local = <<>>

Next ==
    \/ \E t \in DOMAIN topic, u \in UserIds, mod \in BOOLEAN :
          PostSaveNew(t, u, mod)
    \/ \E p \in DOMAIN post, mod \in BOOLEAN : PostSaveStored(p, mod)
    \/ \E p \in DOMAIN post, u \in {None, 1} : PostMarkAsDeleted(p, u)
    \/ \E p \in DOMAIN post : PostMarkAsUndeleted(p)
    \/ \E t \in DOMAIN topic : TopicDelete(t)
    \/ \E t \in DOMAIN topic : TopicUndelete(t)
    \/ \E t \in DOMAIN topic : TopicRecount(t)
    \/ \E f \in DOMAIN forum : ForumRecompute(f)

Spec == Init /\ [][Next]_vars

(***************************************************************************)
(* The forum tree: forums are created, deleted and moved under it.  Forum  *)
(* 1 is the root and forum 2 its child; topic 1 of forum 2 holds one       *)
(* visible post, saved by Post.save.                                       *)
(***************************************************************************)

RECURSIVE Descendants(_, _)
\* The forums below f.
Descendants(F, f) ==
    LET kids == ChildForums(F, f)
    IN kids \cup UNION {Descendants(F, c) : c \in kids}

\* ForumManager.post_save for a created forum and ForumManager.post_delete:
\* when the instance has a parent, the parent is recomputed.
ForumSignal(F, T, P, parent) ==
    IF parent # None THEN ForumCompute(F, T, P, parent) ELSE F

\* Forum.objects.create(forum=parent): a new forum with the counters'
\* defaults.  The primary key is the least unused one: nothing refers to
\* the key of a deleted forum, so the model uses it again.
ForumCreate(parent, staff, hidden) ==
    LET free == ForumIds \ DOMAIN forum
        id == CHOOSE i \in free : \A j \in free : i <= j
        F1 == forum @@ (id :> NewForum(parent, staff, hidden))
    IN /\ free # {}
       /\ forum' = ForumSignal(F1, topic, post, parent)
       /\ last' = [Call("Forum.create") EXCEPT !.forum = id, !.other = parent]
       /\ UNCHANGED <<moderator, moderator_ids,
                      topic, post, postdeletion, subscription,
                      topicredirection, topicreadtracker, forumreadtracker,
                      now, pc, local>>

\* forum.delete(): child forums and topics are PROTECTed, read trackers
\* of the forum go with it (CASCADE).
ForumDelete(f) ==
    LET parent == forum[f].forum_id
        F1 == [g \in DOMAIN forum \ {f} |-> forum[g]]
    IN /\ ChildForums(forum, f) = {}
       /\ \A t \in DOMAIN topic : topic[t].forum # f
       /\ forum' = ForumSignal(F1, topic, post, parent)
       /\ forumreadtracker' = {r \in forumreadtracker : r.forum # f}
       /\ last' = [Call("Forum.delete") EXCEPT !.forum = f, !.other = parent]
       /\ UNCHANGED <<moderator, moderator_ids,
                      topic, post, postdeletion, subscription,
                      topicredirection, topicreadtracker, now, pc, local>>

\* BaseForum.watch_forum for a saved change of forum_id from old to new:
\* [forum], the table after the handler.
WatchForum(F, T, P, f, old, new) ==
    LET F1 == [F EXCEPT ![f].forum_id = new]
    IN IF old # None /\ old # new
       THEN IF old \in DOMAIN F1
            THEN ForumUpdateCounters(F1, T, P, old, F1[old])
            ELSE F1
       ELSE F1

\* A forum is moved: its forum_id is set to new (None makes it a root) and
\* saved.  The tree stays a tree: no forum is moved below itself.
ForumMove(f, new) ==
    LET old == forum[f].forum_id
    IN /\ new # old
       /\ new # f
       /\ new \notin Descendants(forum, f)
       /\ forum' = WatchForum(forum, topic, post, f, old, new)
       /\ last' = [Call("Forum.move") EXCEPT
                      !.forum = f, !.other = new, !.flag = (old # None)]
       /\ UNCHANGED <<moderator, moderator_ids,
                      topic, post, postdeletion, subscription,
                      topicredirection, topicreadtracker, forumreadtracker,
                      now, pc, local>>

InitForum ==
    LET F0 == (1 :> [NewForum(None, FALSE, FALSE) EXCEPT !.forum_count = 1])
              @@ (2 :> NewForum(1, FALSE, FALSE))
        T0 == (1 :> NewTopic(2, 1))
        P1 == (1 :> NewPost(1, 1, 1, FALSE))
        r == TopicUpdateCounters(F0, T0, P1, 1, [T0[1] EXCEPT !.updated = 1],
                                 [F0[2] EXCEPT !.updated = 1])
    IN /\ forum = r.forum
       /\ topic = r.topic
       /\ post = P1
       /\ postdeletion = {}
       /\ subscription = {}
       /\ topicredirection = {}
       /\ topicreadtracker = {}
       /\ forumreadtracker = {}
    /\ moderator = {}
    /\ moderator_ids = NoCache
       /\ now = 2
       /\ last = NoCall
       /\ pc = <<>>
       /\ local = <<>>

NextForum ==
    \/ \E parent \in {None} \cup DOMAIN forum : ForumCreate(parent, FALSE, FALSE)
    \/ \E f \in DOMAIN forum : ForumDelete(f)
    \/ \E f \in DOMAIN forum, new \in {None} \cup DOMAIN forum : ForumMove(f, new)
    \/ \E f \in DOMAIN forum : ForumRecompute(f)

SpecForum == InitForum /\ [][NextForum]_vars

(***************************************************************************)
(* Read tracking: Topic.mark_as_read over two topics of one forum, two     *)
(* users, new posts and a clock.  A TopicReadTracker row is                *)
(* [topic, user, time_stamp], a ForumReadTracker row is                    *)
(* [id, forum, user, time_stamp] with id its primary key, a Subscription   *)
(* row is [topic, user, sent].                                             *)
(***************************************************************************)

\* The primary key the next row inserted in table M gets.
NextId(M) ==
    IF M = {} THEN 1
    ELSE (CHOOSE m \in M : \A x \in M : x.id <= m.id).id + 1

\* ForumReadTracker.objects.get(forum=..., user=...) that lets
\* ObjectDoesNotExist escape.
ForumMarkLookupUncaught(M, f, u) ==
    LET found == {m \in M : m.forum = f /\ m.user = u}
    IN IF Cardinality(found) = 1
       THEN [mark |-> (CHOOSE m \in found : TRUE).time_stamp,
             raised |-> FALSE]
       ELSE [mark |-> None, raised |-> TRUE]

\* The try/except around ForumReadTracker.objects.get: a missing row gives
\* forum_mark = None, several rows raise MultipleObjectsReturned.
ForumMarkLookup(M, f, u) ==
    LET found == {m \in M : m.forum = f /\ m.user = u}
    IN IF found = {} THEN [mark |-> None, raised |-> FALSE]
       ELSE IF Cardinality(found) = 1
       THEN [mark |-> (CHOOSE m \in found : TRUE).time_stamp,
             raised |-> FALSE]
       ELSE [mark |-> None, raised |-> TRUE]

\* The read queryset: topics of the forum with a tracker of the user later
\* than the topic's updated (a NULL updated compares as unknown).
TopicsRead(T, R, f, u) ==
    {t \in DOMAIN T :
        /\ T[t].forum = f
        /\ T[t].updated # None
        /\ \E r \in R : r.topic = t /\ r.user = u
                        /\ r.time_stamp > T[t].updated}

\* The unread queryset without the forum_mark filter.
TopicsUnreadIgnoringMark(T, R, f, u, mark) ==
    {t \in DOMAIN T : T[t].forum = f /\ t \notin TopicsRead(T, R, f, u)}

\* The unread queryset.
TopicsUnread(T, R, f, u, mark) ==
    {t \in DOMAIN T :
        /\ T[t].forum = f
        /\ t \notin TopicsRead(T, R, f, u)
        /\ mark # None => (T[t].updated # None /\ T[t].updated > mark)}

\* ForumMarkIsOlder that takes a mark of the same time for older.
ForumMarkIsNotNewer(mark, updated) == mark = None \/ mark <= updated

\* (forum_mark is None) or (forum_mark.time_stamp < self.updated)
ForumMarkIsOlder(mark, updated) == mark = None \/ mark < updated

\* BaseTopic.mark_as_read(user) at clock value time: the tables it leaves
\* and what it did.
MarkAsRead(T, S, R, M, t, u, time) ==
    LET f == T[t].forum
        S1 == {IF s.topic = t /\ s.user = u THEN [s EXCEPT !.sent = FALSE]
               ELSE s : s \in S}
        look == ForumMarkLookup(M, f, u)
        mark == look.mark
        recorded == /\ ~look.raised
                    /\ T[t].updated # None
                    /\ ForumMarkIsOlder(mark, T[t].updated)
        mine == {r \in R : r.topic = t /\ r.user = u}
        R1 == IF mine # {}
              THEN {IF r \in mine THEN [r EXCEPT !.time_stamp = time]
                    ELSE r : r \in R}
              ELSE R \cup {[topic |-> t, user |-> u, time_stamp |-> time]}
        cleared == recorded /\ TopicsUnread(T, R1, f, u, mark) = {}
        R2 == {r \in R1 : ~(r.user = u /\ T[r.topic].forum = f)}
        M1 == IF mark = None
              THEN M \cup {[id |-> NextId(M), forum |-> f, user |-> u,
                            time_stamp |-> time]}
              ELSE {IF m.forum = f /\ m.user = u
                    THEN [m EXCEPT !.time_stamp = time] ELSE m : m \in M}
    IN [subscription |-> S1,
        topicreadtracker |-> IF cleared THEN R2
                             ELSE IF recorded THEN R1 ELSE R,
        forumreadtracker |-> IF cleared THEN M1 ELSE M,
        mark |-> mark, recorded |-> recorded, cleared |-> cleared,
        raised |-> look.raised]

\* topic.mark_as_read(user) is called for topic t and user u.
TopicMarkAsRead(t, u) ==
    LET r == MarkAsRead(topic, subscription, topicreadtracker,
                        forumreadtracker, t, u, now)
    IN /\ subscription' = r.subscription
       /\ topicreadtracker' = r.topicreadtracker
       /\ forumreadtracker' = r.forumreadtracker
       /\ last' = [Call("Topic.mark_as_read") EXCEPT
                      !.topic = t, !.user = u, !.forum = topic[t].forum,
                      !.other = r.mark, !.flag = r.recorded,
                      !.result = r.cleared, !.raised = r.raised]
       /\ UNCHANGED <<moderator, moderator_ids,
                      forum, topic, post, postdeletion, topicredirection,
                      now, pc, local>>

\* The rows ForumReadTracker.objects.mark_as_read(user, forums) creates at
\* clock value time: one for every entry of the list forums whose forum
\* the user has no tracker for, keyed in the order of the list.
ForumTrackersCreated(M, u, forums, time) ==
    LET forum_ids == {m.forum : m \in {x \in M : x.user = u}}
        fresh == {i \in 1..Len(forums) : forums[i] \notin forum_ids}
    IN {[id |-> NextId(M) + Cardinality({j \in fresh : j < i}),
         forum |-> forums[i], user |-> u, time_stamp |-> time] :
           i \in fresh}

\* ForumReadTracker.objects.mark_as_read(user, forums) for the list of
\* forums fs: the trackers are created in bulk, the trackers the user has
\* for other forums of the list are stamped with the current time, and the
\* created trackers are returned.
ForumReadTrackerMarkAsRead(u, fs) ==
    LET forum_ids == {m.forum : m \in {x \in forumreadtracker : x.user = u}}
        trackers == ForumTrackersCreated(forumreadtracker, u, fs, now)
        updated_ids == {fs[i] : i \in 1..Len(fs)} \cap forum_ids
    IN /\ forumreadtracker' =
              {IF m.forum \in updated_ids /\ m.user = u
               THEN [m EXCEPT !.time_stamp = now] ELSE m :
                   m \in forumreadtracker} \cup trackers
       /\ last' = [Call("ForumReadTracker.mark_as_read") EXCEPT
                      !.user = u, !.other = fs, !.result = trackers,
                      !.flag = (trackers # {})]
       /\ UNCHANGED <<moderator, moderator_ids,
                      forum, topic, post, postdeletion, subscription,
                      topicredirection, topicreadtracker, now, pc, local>>

\* tznow() has moved on.
Tick ==
    /\ now < MaxNow
    /\ now' = now + 1
    /\ last' = Call("tick")
    /\ UNCHANGED <<moderator, moderator_ids,
                   forum, topic, post, postdeletion, subscription,
                   topicredirection, topicreadtracker, forumreadtracker,
                   pc, local>>

\* Two topics without posts in forum 2; user 1 watches topic 1 and has
\* been notified.
InitRead ==
    /\ forum = [f \in {1, 2} |->
                  IF f = 1 THEN [NewForum(None, FALSE, FALSE)
                                     EXCEPT !.forum_count = 1]
                  ELSE NewForum(1, FALSE, FALSE)]
    /\ topic = [t \in TopicIds |-> NewTopic(2, 1)]
    /\ post = <<>>
    /\ postdeletion = {}
    /\ subscription = {[topic |-> 1, user |-> 1, sent |-> TRUE]}
    /\ topicredirection = {}
    /\ topicreadtracker = {}
    /\ forumreadtracker = {}
    /\ moderator = {}
    /\ moderator_ids = NoCache
    /\ now = 1
    /\ last = NoCall
    /\ pc = <<>>
    /\ local = <<>>

NextRead ==
    \/ \E t \in DOMAIN topic : PostSaveNew(t, 1, FALSE)
    \/ \E t \in DOMAIN topic, u \in UserIds : TopicMarkAsRead(t, u)
    \/ \E u \in UserIds : ForumReadTrackerMarkAsRead(u, <<2>>)
    \/ Tick

SpecRead == InitRead /\ [][NextRead]_vars

(***************************************************************************)
(* Forum visibility: is_hidden and is_accessible_by over any forum tree,   *)
(* any staff and hidden flags and any requesting user.                     *)
(***************************************************************************)

RECURSIVE ForumIsHidden(_, _)
\* BaseForum.is_hidden
ForumIsHidden(F, f) ==
    F[f].hidden \/ (F[f].forum_id # None /\ ForumIsHidden(F, F[f].forum_id))

\* is_accessible_by that looks at the forum's own flags only.
ForumOwnFlagsAllow(F, f, user, hidden) ==
    /\ ~(F[f].staff /\ ~user.is_staff)
    /\ ~(hidden /\ ForumIsHidden(F, f) /\ ~user.is_authenticated)

RECURSIVE ForumIsAccessibleBy(_, _, _, _)
\* BaseForum.is_accessible_by(user, hidden)
ForumIsAccessibleBy(F, f, user, hidden) ==
    IF F[f].forum_id # None
       /\ ~ForumIsAccessibleBy(F, F[f].forum_id, user, hidden)
    THEN FALSE
    ELSE IF F[f].staff /\ ~user.is_staff THEN FALSE
    ELSE IF hidden /\ ForumIsHidden(F, f) /\ ~user.is_authenticated THEN FALSE
    ELSE TRUE

\* forum.is_accessible_by(user, hidden=hidden) is called.
ForumAccess(f, user, hidden) ==
    /\ last' = [Call("Forum.is_accessible_by") EXCEPT
                   !.forum = f, !.user = user, !.flag = hidden,
                   !.result = ForumIsAccessibleBy(forum, f, user, hidden)]
    /\ UNCHANGED <<moderator, moderator_ids,
                   forum, topic, post, postdeletion, subscription,
                   topicredirection, topicreadtracker, forumreadtracker,
                   now, pc, local>>

\* Any tree over the forums (the parent of a forum has a smaller key, so
\* no forum is its own ancestor) with any staff and hidden flags.
InitAccess ==
    /\ forum \in {F \in [ForumIds -> {NewForum(parent, st, hd) :
                             parent \in {None} \cup ForumIds,
                             st \in BOOLEAN, hd \in BOOLEAN}] :
                     \A f \in ForumIds : F[f].forum_id < f}
    /\ topic = <<>>
    /\ post = <<>>
    /\ postdeletion = {}
    /\ subscription = {}
    /\ topicredirection = {}
    /\ topicreadtracker = {}
    /\ forumreadtracker = {}
    /\ moderator = {}
    /\ moderator_ids = NoCache
    /\ now = 1
    /\ last = NoCall
    /\ pc = <<>>
    /\ local = <<>>

NextAccess ==
    \E f \in DOMAIN forum, user \in Requesters, hidden \in BOOLEAN :
        ForumAccess(f, user, hidden)

SpecAccess == InitAccess /\ [][NextAccess]_vars

(***************************************************************************)
(* Two concurrent Post.save calls of new visible posts in topic 1.  The    *)
(* source takes no lock and opens no transaction, so every statement is    *)
(* committed on its own and the statements of the two calls interleave.    *)
(* pc[i] is the statement call i executes next, local[i] its in-memory     *)
(* instances: tinst is self.topic, finst is self.topic.forum, cur the      *)
(* forum compute works on and row what it computed for it.                 *)
(***************************************************************************)

Procs == {1, 2}

\* super().save(): the INSERT of the post of call i, written by user u, and
\* the assignments to self.topic.updated and self.topic.forum.updated.
ConcInsert(i, u) ==
    LET id == Cardinality(DOMAIN post) + 1
        t == 1
    IN /\ pc[i] = "insert"
       /\ post' = post @@ (id :> NewPost(t, u, now, FALSE))
       /\ now' = now + 1
       /\ local' = [local EXCEPT ![i] =
                       [topic |-> t,
                        tinst |-> [topic[t] EXCEPT !.updated = now],
                        cur |-> topic[t].forum,
                        finst |-> [forum[topic[t].forum]
                                       EXCEPT !.updated = now],
                        row |-> forum[topic[t].forum]]]
       /\ pc' = [pc EXCEPT ![i] = "topic_count"]
       /\ UNCHANGED <<moderator, moderator_ids,
                      forum, topic, postdeletion, subscription,
                      topicredirection, topicreadtracker, forumreadtracker,
                      last>>

\* The queries of BaseTopic.update_counters of call i.
ConcTopicCount(i) ==
    /\ pc[i] = "topic_count"
    /\ local' = [local EXCEPT ![i].tinst =
                    TopicCounted(local[i].tinst, post, local[i].topic)]
    /\ pc' = [pc EXCEPT ![i] = "topic_save"]
    /\ UNCHANGED <<moderator, moderator_ids,
                   forum, topic, post, postdeletion, subscription,
                   topicredirection, topicreadtracker, forumreadtracker,
                   now, last>>

\* self.save(update_fields=[...]) of BaseTopic.update_counters of call i.
ConcTopicSave(i) ==
    /\ pc[i] = "topic_save"
    /\ topic' = TopicSaveCounters(topic, local[i].topic, local[i].tinst)
    /\ pc' = [pc EXCEPT ![i] = "forum_last_post"]
    /\ UNCHANGED <<moderator, moderator_ids,
                   forum, post, postdeletion, subscription,
                   topicredirection, topicreadtracker, forumreadtracker,
                   now, last, local>>

\* get_last_post of BaseForum.update_counters of call i.
ConcForumLastPost(i) ==
    LET lp == ForumGetLastPost(topic, post, local[i].cur)
        inst == local[i].finst
    IN /\ pc[i] = "forum_last_post"
       /\ local' = [local EXCEPT ![i].finst =
                       IF lp.post # None
                       THEN [inst EXCEPT !.updated = post[lp.post].created,
                                         !.last_post = lp.post,
                                         !.last_topic = lp.topic]
                       ELSE inst]
       /\ pc' = [pc EXCEPT ![i] = IF lp.raised THEN "done"
                                  ELSE "forum_count"]
       /\ UNCHANGED <<moderator, moderator_ids,
                      forum, topic, post, postdeletion, subscription,
                      topicredirection, topicreadtracker, forumreadtracker,
                      now, last>>

\* The queries of BaseForum.compute of call i on the forum local[i].cur.
ConcForumCount(i) ==
    /\ pc[i] = "forum_count"
    /\ local' = [local EXCEPT ![i].row =
                    ForumComputed(forum, topic, post, local[i].cur)]
    /\ pc' = [pc EXCEPT ![i] = "forum_save"]
    /\ UNCHANGED <<moderator, moderator_ids,
                   forum, topic, post, postdeletion, subscription,
                   topicredirection, topicreadtracker, forumreadtracker,
                   now, last>>

\* self.save(update_fields=[...]) of BaseForum.compute of call i, and the
\* step to the parent forum when there is one.
ConcForumSave(i) ==
    LET f == local[i].cur
        row == local[i].row
        up == forum[f].forum_id # None /\ forum[f].forum_id # f
    IN /\ pc[i] = "forum_save"
       /\ forum' = [forum EXCEPT ![f].post_count = row.post_count,
                                 ![f].member_count = row.member_count,
                                 ![f].topic_count = row.topic_count,
                                 ![f].forum_count = row.forum_count]
       /\ local' = [local EXCEPT ![i].cur =
                       IF up THEN forum[f].forum_id ELSE f]
       /\ pc' = [pc EXCEPT ![i] = IF up THEN "forum_count"
                                  ELSE "forum_updated"]
       /\ UNCHANGED <<moderator, moderator_ids,
                      topic, post, postdeletion, subscription,
                      topicredirection, topicreadtracker, forumreadtracker,
                      now, last>>

\* self.save(update_fields=['updated', 'last_post', 'last_topic']) of
\* BaseForum.update_counters of call i; Post.save returns.
ConcForumUpdated(i) ==
    LET f == topic[local[i].topic].forum
        inst == local[i].finst
    IN /\ pc[i] = "forum_updated"
       /\ forum' = [forum EXCEPT ![f].updated = inst.updated,
                                 ![f].last_post = inst.last_post,
                                 ![f].last_topic = inst.last_topic]
       /\ pc' = [pc EXCEPT ![i] = "done"]
       /\ UNCHANGED <<moderator, moderator_ids,
                      topic, post, postdeletion, subscription,
                      topicredirection, topicreadtracker, forumreadtracker,
                      now, last, local>>

\* Forum 2 below forum 1, an empty topic 1 in forum 2, and two calls of
\* Post.save about to start.
InitConc ==
    /\ forum = [f \in {1, 2} |->
                  IF f = 1 THEN [NewForum(None, FALSE, FALSE)
                                     EXCEPT !.forum_count = 1]
                  ELSE NewForum(1, FALSE, FALSE)]
    /\ topic = (1 :> NewTopic(2, 1))
    /\ post = <<>>
    /\ postdeletion = {}
    /\ subscription = {}
    /\ topicredirection = {}
    /\ topicreadtracker = {}
    /\ forumreadtracker = {}
    /\ moderator = {}
    /\ moderator_ids = NoCache
    /\ now = 1
    /\ last = NoCall
    /\ pc = [i \in Procs |-> "insert"]
    /\ local = [i \in Procs |-> [topic |-> None]]

NextConc ==
    \E i \in Procs :
        \/ \E u \in UserIds : ConcInsert(i, u)
        \/ ConcTopicCount(i)
        \/ ConcTopicSave(i)
        \/ ConcForumLastPost(i)
        \/ ConcForumCount(i)
        \/ ConcForumSave(i)
        \/ ConcForumUpdated(i)

SpecConc == InitConc /\ [][NextConc]_vars

(***************************************************************************)
(* The view decorators (src/pybb/decorators.py).  A request is             *)
(* [user, uri], a URL is [scheme, netloc, path], and local holds what the  *)
(* last call of a wrapped view was given, which view calls it made and     *)
(* the response it returned.                                               *)
(***************************************************************************)

\* The callables a view is wrapped with.
TestFuncs == {"is_authenticated", "is_staff", "is_superuser"}

\* test_func(user)
TestFunc(test, user) ==
    IF test = "is_authenticated" THEN user.is_authenticated
    ELSE IF test = "is_staff" THEN user.is_staff
    ELSE user.is_superuser

ViewFuncs == {"index", "detail"}

\* view_func(request, *args, **kwargs): what the view returns is its own,
\* and differs with the view, the request and the arguments.
ViewFunc(view, request, args) ==
    [kind |-> "response", view |-> view, request |-> request, args |-> args]

\* urlparse(url)[:2]
UrlSchemeNetloc(url) == <<url.scheme, url.netloc>>

\* The values of get_login_url(): a path, or a URL on this or another host.
LoginUrls ==
    {[scheme |-> "", netloc |-> "", path |-> "/login/"],
     [scheme |-> "https", netloc |-> "forum", path |-> "/login/"],
     [scheme |-> "https", netloc |-> "sso", path |-> "/login/"]}

\* request.build_absolute_uri() of the requests made.
RequestUris ==
    {[scheme |-> "https", netloc |-> "forum", path |-> p] :
        p \in {"/", "/topic/1/"}}

REDIRECT_FIELD_NAME == "next"

\* The login_url argument of the decorator: not given (None) or a path.
LoginUrlArgs == {"None", "/accounts/login/"}

\* pybb.views.base.redirect_to_login(next, login_url, redirect_field_name)
RedirectToLogin(path, login_url, redirect_field_name) ==
    [kind |-> "redirect_to_login", next |-> path, login_url |-> login_url,
     redirect_field_name |-> redirect_field_name]

\* _wrapped_view that calls the view whatever the test says.
WrappedViewUntested(test, view, request, args, url, login_url) ==
    [calls |-> <<[view |-> view, request |-> request, args |-> args]>>,
     response |-> ViewFunc(view, request, args)]

\* _wrapped_view(request, *args, **kwargs) of user_passes_test(test_func,
\* login_url)(view_func), with url what get_login_url() returns: the calls
\* of the view it makes and its response.
WrappedView(test, view, request, args, url, login_url) ==
    IF TestFunc(test, request.user)
    THEN [calls |-> <<[view |-> view, request |-> request, args |-> args]>>,
          response |-> ViewFunc(view, request, args)]
    ELSE LET path0 == request.uri
             login == UrlSchemeNetloc(url)
             current == UrlSchemeNetloc(path0)
             path == IF (login[1] = "" \/ login[1] = current[1])
                        /\ (login[2] = "" \/ login[2] = current[2])
                     THEN request.uri
                     ELSE path0
         IN [calls |-> <<>>,
             response |-> RedirectToLogin(path, login_url,
                                          REDIRECT_FIELD_NAME)]

\* A request to a view wrapped by user_passes_test(test).
UserPassesTest(test, view, request, args, url, login_url) ==
    LET r == WrappedView(test, view, request, args, url, login_url)
    IN /\ local' = [test |-> test, view |-> view, request |-> request,
                    args |-> args, calls |-> r.calls,
                    response |-> r.response]
       /\ last' = Call("user_passes_test")
       /\ UNCHANGED <<moderator, moderator_ids,
                      forum, topic, post, postdeletion, subscription,
                      topicredirection, topicreadtracker, forumreadtracker,
                      now, pc>>

\* A request to a view wrapped by login_required.
LoginRequired(view, request, args, url, login_url) ==
    LET r == WrappedView("is_authenticated", view, request, args, url,
                         login_url)
    IN /\ local' = [test |-> "is_authenticated", view |-> view,
                    request |-> request, args |-> args, calls |-> r.calls,
                    response |-> r.response]
       /\ last' = Call("login_required")
       /\ UNCHANGED <<moderator, moderator_ids,
                      forum, topic, post, postdeletion, subscription,
                      topicredirection, topicreadtracker, forumreadtracker,
                      now, pc>>

InitView ==
    /\ forum = <<>>
    /\ topic = <<>>
    /\ post = <<>>
    /\ postdeletion = {}
    /\ subscription = {}
    /\ topicredirection = {}
    /\ topicreadtracker = {}
    /\ forumreadtracker = {}
    /\ moderator = {}
    /\ moderator_ids = NoCache
    /\ now = 1
    /\ last = NoCall
    /\ pc = <<>>
    /\ local = <<>>

NextView ==
    \E view \in ViewFuncs, user \in Requesters, uri \in RequestUris,
       args \in {<<>>, <<1>>}, url \in LoginUrls, login_url \in LoginUrlArgs :
        \/ \E test \in TestFuncs :
              UserPassesTest(test, view, [user |-> user, uri |-> uri], args,
                             url, login_url)
        \/ LoginRequired(view, [user |-> user, uri |-> uri], args, url,
                         login_url)

SpecView == InitView /\ [][NextView]_vars

(***************************************************************************)
(* Post saves and deletions only: the posts of topic 1 are saved, sent to  *)
(* or taken from moderation and soft-deleted, and the topic is             *)
(* soft-deleted; nothing is undeleted.                                     *)
(***************************************************************************)

NextModeration ==
    \/ \E t \in DOMAIN topic, u \in UserIds, mod \in BOOLEAN :
           PostSaveNew(t, u, mod)
    \/ \E p \in DOMAIN post, mod \in BOOLEAN : PostSaveStored(p, mod)
    \/ \E p \in DOMAIN post, u \in {None, 1} : PostMarkAsDeleted(p, u)
    \/ \E t \in DOMAIN topic : TopicDelete(t)

SpecModeration == Init /\ [][NextModeration]_vars

(***************************************************************************)
(* Topic and post visibility: is_moderated_by and is_accessible_by of a    *)
(* topic and its posts, over the moderation states of the topic, the       *)
(* Moderator rows, the forum flags and the requesting users.               *)
(***************************************************************************)

\* get_moderator_ids_by_forum(): the Moderator rows by forum, read from the
\* table on the first call and from lru_cache afterwards.
GetModeratorIdsByForum(cache, M) == IF cache.cached THEN cache.rows ELSE M

\* Whether is_moderated_by gets as far as get_moderator_ids_by_forum.
ReadsModeratorIds(user) ==
    ~(user.is_superuser \/ user.is_staff) /\ user.is_authenticated

\* BaseForum.is_moderated_by(user, permission=None), rows being what
\* get_moderator_ids_by_forum() returns.
ForumIsModeratedBy(rows, f, user) ==
    IF user.is_superuser \/ user.is_staff THEN TRUE
    ELSE user.is_authenticated
         /\ [forum |-> f, user |-> user.pk] \in rows

\* BaseTopic.is_moderated_by(user)
TopicIsModeratedBy(T, rows, t, user) ==
    ForumIsModeratedBy(rows, T[t].forum, user)

\* TopicIsAccessibleBy that does not look at the deleted flag.
TopicIsAccessibleIgnoringDeleted(F, T, rows, t, user) ==
    IF /\ T[t].on_moderation = MODERATION_IS_IN_MODERATION
       /\ ~TopicIsModeratedBy(T, rows, t, user)
       /\ (~user.is_authenticated
           \/ (user.is_authenticated /\ ~(user.pk = T[t].user)))
    THEN FALSE
    ELSE ForumIsAccessibleBy(F, T[t].forum, user, TRUE)

\* BaseTopic.is_accessible_by(user)
TopicIsAccessibleBy(F, T, rows, t, user) ==
    IF /\ (T[t].on_moderation = MODERATION_IS_IN_MODERATION \/ T[t].deleted)
       /\ ~TopicIsModeratedBy(T, rows, t, user)
       /\ (~user.is_authenticated
           \/ (user.is_authenticated /\ ~(user.pk = T[t].user)))
    THEN FALSE
    ELSE ForumIsAccessibleBy(F, T[t].forum, user, TRUE)

\* PostIsAccessibleBy without the premoderation test.
PostIsAccessibleAsTopic(F, T, P, rows, p, user, premoderation) ==
    TopicIsAccessibleBy(F, T, rows, P[p].topic, user)

\* BasePost.is_accessible_by(user), premoderation being
\* defaults.PYBB_PREMODERATION.
PostIsAccessibleBy(F, T, P, rows, p, user, premoderation) ==
    IF /\ premoderation
       /\ P[p].on_moderation
       /\ ~TopicIsModeratedBy(T, rows, P[p].topic, user)
       /\ (~user.is_authenticated \/ ~(P[p].user = user.pk))
    THEN FALSE
    ELSE TopicIsAccessibleBy(F, T, rows, P[p].topic, user)

\* The lru_cache after a call that did (reads) or did not read the
\* moderator ids.
CacheAfter(reads) ==
    IF reads /\ ~moderator_ids.cached
    THEN [cached |-> TRUE, rows |-> moderator]
    ELSE moderator_ids

\* topic.is_accessible_by(user) is called for topic t.
TopicAccess(t, user) ==
    LET rows == GetModeratorIdsByForum(moderator_ids, moderator)
        reads == /\ (topic[t].on_moderation = MODERATION_IS_IN_MODERATION
                     \/ topic[t].deleted)
                 /\ ReadsModeratorIds(user)
    IN /\ last' = [Call("Topic.is_accessible_by") EXCEPT
                      !.topic = t, !.user = user,
                      !.result = TopicIsAccessibleBy(forum, topic, rows, t,
                                                     user)]
       /\ moderator_ids' = CacheAfter(reads)
       /\ UNCHANGED <<forum, topic, post, postdeletion, subscription,
                      topicredirection, topicreadtracker, forumreadtracker,
                      moderator, now, pc, local>>

\* post.is_accessible_by(user) is called for post p.
PostAccess(p, user, premoderation) ==
    LET rows == GetModeratorIdsByForum(moderator_ids, moderator)
        t == post[p].topic
        mine == premoderation /\ post[p].on_moderation
        refused == /\ mine
                   /\ ~TopicIsModeratedBy(topic, rows, t, user)
                   /\ (~user.is_authenticated \/ ~(post[p].user = user.pk))
        reads == /\ ReadsModeratorIds(user)
                 /\ \/ mine
                    \/ /\ ~refused
                       /\ (topic[t].on_moderation
                               = MODERATION_IS_IN_MODERATION
                           \/ topic[t].deleted)
    IN /\ last' = [Call("Post.is_accessible_by") EXCEPT
                      !.topic = t, !.post = p, !.user = user,
                      !.flag = premoderation,
                      !.result = PostIsAccessibleBy(forum, topic, post, rows,
                                                    p, user, premoderation)]
       /\ moderator_ids' = CacheAfter(reads)
       /\ UNCHANGED <<forum, topic, post, postdeletion, subscription,
                      topicredirection, topicreadtracker, forumreadtracker,
                      moderator, now, pc, local>>

\* Forum 2 below forum 1 with any staff flag on forum 1 and hidden flag on
\* forum 2; topic 1 of forum 2, started by either user, with two posts,
\* each by either user and on moderation or not, counted by
\* update_counters and then soft-deleted or not; any Moderator rows of
\* user 1.
InitTopicAccess ==
    /\ \E st \in BOOLEAN, hd \in BOOLEAN, author \in UserIds,
          u1 \in UserIds, u2 \in UserIds, m1 \in BOOLEAN, m2 \in BOOLEAN,
          del \in BOOLEAN :
        LET F0 == [f \in {1, 2} |->
                      IF f = 1 THEN [NewForum(None, st, FALSE)
                                         EXCEPT !.forum_count = 1]
                      ELSE NewForum(1, FALSE, hd)]
            T0 == (1 :> NewTopic(2, author))
            P0 == <<NewPost(1, u1, 1, m1), NewPost(1, u2, 2, m2)>>
            r == TopicUpdateCounters(F0, T0, P0, 1, T0[1], F0[2])
            d == TopicMarkAsDeleted(r.forum, r.topic, P0, 1)
        IN /\ forum = IF del THEN d.forum ELSE r.forum
           /\ topic = IF del THEN d.topic ELSE r.topic
           /\ post = IF del THEN d.post ELSE P0
    /\ postdeletion = {}
    /\ subscription = {}
    /\ topicredirection = {}
    /\ topicreadtracker = {}
    /\ forumreadtracker = {}
    /\ moderator \in SUBSET {[forum |-> f, user |-> 1] : f \in {1, 2}}
    /\ moderator_ids = NoCache
    /\ now = 3
    /\ last = NoCall
    /\ pc = <<>>
    /\ local = <<>>

NextTopicAccess ==
    \/ \E t \in DOMAIN topic, user \in Requesters : TopicAccess(t, user)
    \/ \E p \in DOMAIN post, user \in Requesters, premoderation \in BOOLEAN :
           PostAccess(p, user, premoderation)

SpecTopicAccess == InitTopicAccess /\ [][NextTopicAccess]_vars

(***************************************************************************)
(* Merging topics: topic 1 of forum 2 and topic 2 of forum 1 (the parent   *)
(* of forum 2) receive posts, posts are soft-deleted, user 1 reads topics  *)
(* and one topic absorbs the other.  Topic 2 has a poll or none, and user  *)
(* 1 watches it.                                                           *)
(***************************************************************************)

InitAbsorb ==
    /\ forum = [f \in {1, 2} |->
                  IF f = 1 THEN [NewForum(None, FALSE, FALSE)
                                     EXCEPT !.forum_count = 1]
                  ELSE NewForum(1, FALSE, FALSE)]
    /\ \E poll \in {None, 1} :
          topic = [t \in TopicIds |->
                      IF t = 1 THEN NewTopic(2, 1)
                      ELSE [NewTopic(1, 2) EXCEPT !.poll = poll]]
    /\ post = <<>>
    /\ postdeletion = {}
    /\ subscription = {[topic |-> 2, user |-> 1, sent |-> FALSE]}
    /\ topicredirection = {}
    /\ topicreadtracker = {}
    /\ forumreadtracker = {}
    /\ moderator = {}
    /\ moderator_ids = NoCache
    /\ now = 1
    /\ last = NoCall
    /\ pc = <<>>
    /\ local = <<>>

NextAbsorb ==
    \/ \E t \in DOMAIN topic, u \in UserIds, mod \in BOOLEAN :
           PostSaveNew(t, u, mod)
    \/ \E p \in DOMAIN post : PostMarkAsDeleted(p, None)
    \/ \E t \in DOMAIN topic : TopicMarkAsRead(t, 1)
    \/ \E a \in DOMAIN topic, b \in DOMAIN topic : TopicAbsorb(a, b)

SpecAbsorb == InitAbsorb /\ [][NextAbsorb]_vars

(***************************************************************************)
(* Forum.compute call by call: each call of compute on a forum recomputes  *)
(* and saves that forum and then calls compute on its parent.  pc is       *)
(* "compute" while a call is running, and local holds the forum the outer  *)
(* call was made on, the forum of the innermost call and the forums saved  *)
(* so far, in order.                                                       *)
(***************************************************************************)

\* The parent guard of compute that never goes up.
ComputeParentNone(F, f) == None

\* The forum compute goes on with after forum f: self.forum when
\* self.forum_id is set and is not the forum's own key, else none.
ComputeParent(F, f) ==
    IF F[f].forum_id # None /\ F[f].forum_id # f THEN F[f].forum_id
    ELSE None

RECURSIVE ComputeAll(_, _, _, _)
\* compute() on the forums n, n-1, ..., 1.
ComputeAll(F, T, P, n) ==
    IF n = 0 THEN F ELSE ComputeAll(ForumCompute(F, T, P, n), T, P, n - 1)

\* forum.compute() is called on forum f.
ComputeCall(f) ==
    /\ pc = "idle"
    /\ pc' = "compute"
    /\ local' = [start |-> f, cur |-> f, visited |-> <<>>]
    /\ last' = Call("Forum.compute called")
    /\ UNCHANGED <<forum, topic, post, postdeletion, subscription,
                   topicredirection, topicreadtracker, forumreadtracker,
                   moderator, moderator_ids, now>>

\* The body of one compute call: the queries, the assignments and the save
\* of the forum local.cur, then the call on the parent or the return.
ComputeStep ==
    LET f == local.cur
        row == ForumComputed(forum, topic, post, f)
        up == ComputeParent(forum, f)
    IN /\ pc = "compute"
       /\ forum' = [forum EXCEPT ![f].post_count = row.post_count,
                                 ![f].member_count = row.member_count,
                                 ![f].topic_count = row.topic_count,
                                 ![f].forum_count = row.forum_count]
       /\ local' = [local EXCEPT !.visited = Append(local.visited, f),
                                 !.cur = IF up # None THEN up ELSE f]
       /\ pc' = IF up # None THEN "compute" ELSE "idle"
       /\ last' = IF up # None THEN last
                  ELSE [Call("Forum.compute") EXCEPT !.forum = local.start]
       /\ UNCHANGED <<topic, post, postdeletion, subscription,
                      topicredirection, topicreadtracker, forumreadtracker,
                      moderator, moderator_ids, now>>

\* Any forest over the forums (the parent of a forum has a smaller key),
\* with one topic holding one visible post in any of the forums; the
\* counters are those compute leaves.
InitCompute ==
    /\ \E parent \in [ForumIds -> {None} \cup ForumIds], f \in ForumIds,
          stale \in BOOLEAN :
          LET F0 == [g \in ForumIds |-> NewForum(parent[g], FALSE, FALSE)]
              T0 == (1 :> NewTopic(f, 1))
              P0 == <<NewPost(1, 1, 1, FALSE)>>
              r == TopicUpdateCounters(F0, T0, P0, 1, T0[1], F0[f])
          IN /\ \A g \in ForumIds : parent[g] < g
             /\ forum = IF stale THEN r.forum
                        ELSE ComputeAll(r.forum, r.topic, P0, MaxForums)
             /\ topic = r.topic
             /\ post = P0
    /\ postdeletion = {}
    /\ subscription = {}
    /\ topicredirection = {}
    /\ topicreadtracker = {}
    /\ forumreadtracker = {}
    /\ moderator = {}
    /\ moderator_ids = NoCache
    /\ now = 2
    /\ last = NoCall
    /\ pc = "idle"
    /\ local = [start |-> None, cur |-> None, visited |-> <<>>]

NextCompute ==
    \/ \E f \in DOMAIN forum : ComputeCall(f)
    \/ ComputeStep

\* A call that has started runs on: nothing in the source suspends it.
SpecCompute == InitCompute /\ [][NextCompute]_vars /\ WF_vars(ComputeStep)

(***************************************************************************)
(* Marking forums as read: ForumReadTracker.objects.mark_as_read for two   *)
(* users and every list of at most MaxList forums, repeated forums         *)
(* included, as the clock moves on.                                        *)
(***************************************************************************)

\* The lists of forums of length at most MaxList.
ForumLists ==
    UNION {[1..n -> DOMAIN forum] : n \in 0..MaxList}

InitForumRead ==
    /\ forum = [f \in {1, 2} |->
                  IF f = 1 THEN [NewForum(None, FALSE, FALSE)
                                     EXCEPT !.forum_count = 1]
                  ELSE NewForum(1, FALSE, FALSE)]
    /\ topic = <<>>
    /\ post = <<>>
    /\ postdeletion = {}
    /\ subscription = {}
    /\ topicredirection = {}
    /\ topicreadtracker = {}
    /\ forumreadtracker = {}
    /\ moderator = {}
    /\ moderator_ids = NoCache
    /\ now = 1
    /\ last = NoCall
    /\ pc = <<>>
    /\ local = <<>>

NextForumRead ==
    \/ \E u \in UserIds, fs \in ForumLists : ForumReadTrackerMarkAsRead(u, fs)
    \/ Tick

SpecForumRead == InitForumRead /\ [][NextForumRead]_vars

(***************************************************************************)
(* Renderable items: one post held in memory next to its stored row, with  *)
(* the queue of generate_markup tasks.  local holds the instance (item),   *)
(* the row, the tasks and the arguments and return value of the last call. *)
(***************************************************************************)

\* The most generate_markup tasks that wait in the queue.
MaxTasks == 2

\* A null text column (body_html, body_text) or a returned None.
NoText == "None"

\* The values of the body column.
Bodies == {"a", "[b]a[/b]", "a & b"}

\* markup(body, obj): the HTML the markup processor makes of a body.
Markup(body) ==
    CASE body = "a" -> "<p>a</p>"
      [] body = "[b]a[/b]" -> "<p><b>a</b></p>"
      [] body = "a & b" -> "<p>a &amp; b</p>"

\* strip_tags(html): the HTML without its tags.
StripTags(html) ==
    CASE html = "<p>a</p>" -> "a"
      [] html = "<p><b>a</b></p>" -> "a"
      [] html = "<p>a &amp; b</p>" -> "a &amp; b"

\* unescape(text): the text with its entities replaced.
Unescape(text) ==
    CASE text = "a" -> "a"
      [] text = "a &amp; b" -> "a & b"

\* render() on an instance: both renderings are made anew of the body.
Rendered(item) ==
    [item EXCEPT !.body_html = Markup(item.body),
                 !.body_text = Unescape(StripTags(Markup(item.body)))]

\* StoredIsFresh that does not look at force.
StoredIsSet(stored, force) == stored # NoText

\* self.body_html is not None and not force
StoredIsFresh(stored, force) == stored # NoText /\ ~force

\* get_body_html / get_body_text on an instance, with field the column the
\* method reads and returns: the instance and the task queue it leaves,
\* what it returns and how many times it rendered.
GetBody(field, item, tasks, asynchronous, force) ==
    IF StoredIsFresh(item[field], force)
    THEN [item |-> item, tasks |-> tasks, result |-> item[field],
          rendered |-> 0]
    ELSE IF asynchronous
    THEN [item |-> item, tasks |-> Append(tasks, item.pk),
          result |-> NoText, rendered |-> 0]
    ELSE [item |-> Rendered(item), tasks |-> tasks,
          result |-> Rendered(item)[field], rendered |-> 1]

\* One call of get_body_html or get_body_text on the instance.
GetBodyCall(op, field, asynchronous, force) ==
    LET r == GetBody(field, local.item, local.tasks, asynchronous, force)
    IN /\ Len(r.tasks) <= MaxTasks
       /\ local' = [local EXCEPT !.item = r.item, !.tasks = r.tasks,
                                 !.asynchronous = asynchronous,
                                 !.force = force, !.result = r.result,
                                 !.rendered = r.rendered]
       /\ last' = Call(op)
       /\ UNCHANGED <<moderator, moderator_ids, forum, topic, post,
                      postdeletion, subscription, topicredirection,
                      topicreadtracker, forumreadtracker, now, pc>>

\* item.get_body_html(asynchronous, force)
GetBodyHtml(asynchronous, force) ==
    GetBodyCall("get_body_html", "body_html", asynchronous, force)

\* item.get_body_text(asynchronous, force)
GetBodyText(asynchronous, force) ==
    GetBodyCall("get_body_text", "body_text", asynchronous, force)

\* item.render(commit): with commit the two renderings are written to the
\* row.
Render(commit) ==
    LET it == Rendered(local.item)
    IN /\ local' = [local EXCEPT
                       !.item = it,
                       !.row = IF commit
                               THEN [@ EXCEPT !.body_html = it.body_html,
                                              !.body_text = it.body_text]
                               ELSE @,
                       !.asynchronous = FALSE, !.force = commit,
                       !.result = NoText, !.rendered = 1]
       /\ last' = Call("render")
       /\ UNCHANGED <<moderator, moderator_ids, forum, topic, post,
                      postdeletion, subscription, topicredirection,
                      topicreadtracker, forumreadtracker, now, pc>>

\* item.body = b
SetBody(b) ==
    /\ b # local.item.body
    /\ local' = [local EXCEPT !.item.body = b, !.asynchronous = FALSE,
                              !.force = FALSE, !.result = NoText,
                              !.rendered = 0]
    /\ last' = Call("body")
    /\ UNCHANGED <<moderator, moderator_ids, forum, topic, post,
                      postdeletion, subscription, topicredirection,
                      topicreadtracker, forumreadtracker, now, pc>>

\* The instance is loaded again from its row.
Reload ==
    /\ local' = [local EXCEPT !.item = local.row, !.asynchronous = FALSE,
                              !.force = FALSE, !.result = NoText,
                              !.rendered = 0]
    /\ last' = Call("get")
    /\ UNCHANGED <<moderator, moderator_ids, forum, topic, post,
                      postdeletion, subscription, topicredirection,
                      topicreadtracker, forumreadtracker, now, pc>>

\* The first generate_markup task of the queue runs: it loads the row of
\* its pk and calls render(commit=True) on it.
GenerateMarkup ==
    /\ local.tasks # <<>>
    /\ local' = [local EXCEPT
                    !.tasks = Tail(@),
                    !.row = IF Head(local.tasks) = @.pk THEN Rendered(@)
                            ELSE @,
                    !.asynchronous = FALSE, !.force = FALSE,
                    !.result = NoText, !.rendered = 0]
    /\ last' = Call("generate_markup")
    /\ UNCHANGED <<moderator, moderator_ids, forum, topic, post,
                      postdeletion, subscription, topicredirection,
                      topicreadtracker, forumreadtracker, now, pc>>

InitRender ==
    /\ forum = <<>>
    /\ topic = <<>>
    /\ post = <<>>
    /\ postdeletion = {}
    /\ subscription = {}
    /\ topicredirection = {}
    /\ topicreadtracker = {}
    /\ forumreadtracker = {}
    /\ moderator = {}
    /\ moderator_ids = NoCache
    /\ now = 1
    /\ last = NoCall
    /\ pc = <<>>
    /\ \E b \in Bodies :
          local = [item |-> [pk |-> 1, body |-> b, body_html |-> NoText,
                             body_text |-> NoText],
                   row |-> [pk |-> 1, body |-> b, body_html |-> NoText,
                            body_text |-> NoText],
                   tasks |-> <<>>, asynchronous |-> FALSE, force |-> FALSE,
                   result |-> NoText, rendered |-> 0]

NextRender ==
    \/ \E asynchronous \in BOOLEAN, force \in BOOLEAN :
          GetBodyHtml(asynchronous, force)
    \/ \E asynchronous \in BOOLEAN, force \in BOOLEAN :
          GetBodyText(asynchronous, force)
    \/ \E commit \in BOOLEAN : Render(commit)
    \/ \E b \in Bodies : SetBody(b)
    \/ Reload
    \/ GenerateMarkup

SpecRender == InitRender /\ [][NextRender]_vars

(***************************************************************************)
(* Topic querysets filtered for a user: topic 1 of forum 1 and topic 2 of  *)
(* forum 2, over the flags of the forums, the authors, moderation states   *)
(* and deleted flags of the topics and the Moderator rows of user 1.       *)
(***************************************************************************)

\* filter(Q(user=user) | ~Q(on_moderation=IN_MODERATION))
\*     .exclude(deleted=True) on the topics Q
TopicsOwnOrModerated(Q, T, user) ==
    {t \in Q : /\ (T[t].user = user.pk
                   \/ T[t].on_moderation # MODERATION_IS_IN_MODERATION)
               /\ ~T[t].deleted}

\* exclude(on_moderation=IN_MODERATION).exclude(deleted=True) on the
\* topics Q
TopicsModeratedNotDeleted(Q, T) ==
    {t \in Q : /\ T[t].on_moderation # MODERATION_IS_IN_MODERATION
               /\ ~T[t].deleted}

\* TopicQuerySetMixin.filter_by_user(user, forum=f, join=join) on the
\* queryset of the topics Q, rows being what get_moderator_ids_by_forum()
\* returns; f is None when no forum is given.
TopicFilterByUser(Q, F, T, rows, user, f, join) ==
    IF f # None
    THEN IF ~ForumIsModeratedBy(rows, f, user)
         THEN IF user.is_authenticated
              THEN TopicsOwnOrModerated(Q, T, user)
              ELSE TopicsModeratedNotDeleted(Q, T)
         ELSE Q
    ELSE IF user.is_staff \/ user.is_superuser THEN Q
    ELSE IF user.is_authenticated
    THEN TopicsOwnOrModerated(
             IF join THEN {t \in Q : ~F[T[t].forum].staff} ELSE Q, T, user)
    ELSE TopicsModeratedNotDeleted(
             IF join THEN {t \in Q : /\ ~F[T[t].forum].hidden
                                     /\ ~F[T[t].forum].staff}
             ELSE Q, T)

\* qs.filter_by_user(user, forum=f, join=join) is called on the queryset
\* of the topics Q.
TopicFilter(Q, user, f, join) ==
    LET rows == GetModeratorIdsByForum(moderator_ids, moderator)
    IN /\ last' = [Call("Topic.filter_by_user") EXCEPT
                      !.forum = f, !.user = user, !.flag = join,
                      !.other = Q,
                      !.result = TopicFilterByUser(Q, forum, topic, rows,
                                                   user, f, join)]
       /\ moderator_ids' = CacheAfter(f # None /\ ReadsModeratorIds(user))
       /\ UNCHANGED <<forum, topic, post, postdeletion, subscription,
                      topicredirection, topicreadtracker, forumreadtracker,
                      moderator, now, pc, local>>

InitTopicFilter ==
    /\ \E st1 \in BOOLEAN, st2 \in BOOLEAN, hd2 \in BOOLEAN :
          forum = <<NewForum(None, st1, FALSE), NewForum(None, st2, hd2)>>
    /\ \E a1 \in UserIds, a2 \in UserIds,
          m1 \in {MODERATION_IS_CLEAN, MODERATION_IS_IN_MODERATION},
          m2 \in {MODERATION_IS_CLEAN, MODERATION_IS_IN_MODERATION},
          d1 \in BOOLEAN, d2 \in BOOLEAN :
          topic = <<[NewTopic(1, a1) EXCEPT !.on_moderation = m1,
                                            !.deleted = d1],
                    [NewTopic(2, a2) EXCEPT !.on_moderation = m2,
                                            !.deleted = d2]>>
    /\ post = <<>>
    /\ postdeletion = {}
    /\ subscription = {}
    /\ topicredirection = {}
    /\ topicreadtracker = {}
    /\ forumreadtracker = {}
    /\ moderator \in SUBSET {[forum |-> f, user |-> 1] : f \in {1, 2}}
    /\ moderator_ids = NoCache
    /\ now = 1
    /\ last = NoCall
    /\ pc = <<>>
    /\ local = <<>>

NextTopicFilter ==
    \/ \E user \in Requesters, f \in DOMAIN forum :
          TopicFilter(DOMAIN topic, user, f, TRUE)
    \/ \E user \in Requesters, f \in DOMAIN forum :
          TopicFilter({t \in DOMAIN topic : topic[t].forum = f}, user, f,
                      TRUE)
    \/ \E user \in Requesters, join \in BOOLEAN :
          TopicFilter(DOMAIN topic, user, None, join)

SpecTopicFilter == InitTopicFilter /\ [][NextTopicFilter]_vars

(***************************************************************************)
(* Forum querysets filtered for a user, over any forum tree, any staff and *)
(* hidden flags and any user.                                              *)
(***************************************************************************)

\* The anonymous user and the authenticated users with any is_staff and
\* is_superuser.
Users == {AnonymousUser}
         \cup {[pk |-> 1, is_authenticated |-> TRUE, is_staff |-> s,
                is_superuser |-> su] : s \in BOOLEAN, su \in BOOLEAN}

\* ForumQuerySet.filter_by_user(user, hidden) on the queryset of the
\* forums Q.
ForumFilterByUser(Q, F, user, hidden) ==
    IF user.is_staff \/ user.is_superuser THEN Q
    ELSE IF user.is_authenticated THEN {f \in Q : ~F[f].staff}
    ELSE IF hidden THEN {f \in Q : ~F[f].hidden /\ ~F[f].staff}
    ELSE {f \in Q : ~F[f].staff}

\* Forum.objects.filter_by_user(user, hidden) is called.
ForumFilter(user, hidden) ==
    /\ last' = [Call("Forum.filter_by_user") EXCEPT
                   !.user = user, !.flag = hidden,
                   !.result = ForumFilterByUser(DOMAIN forum, forum, user,
                                                hidden)]
    /\ UNCHANGED <<moderator, moderator_ids,
                   forum, topic, post, postdeletion, subscription,
                   topicredirection, topicreadtracker, forumreadtracker,
                   now, pc, local>>

NextForumFilter ==
    \E user \in Users, hidden \in BOOLEAN : ForumFilter(user, hidden)

SpecForumFilter == InitAccess /\ [][NextForumFilter]_vars

(***************************************************************************)
(* Moderator rows added and deleted between calls of is_moderated_by, with *)
(* the lru_cache of get_moderator_ids_by_forum.                            *)
(***************************************************************************)

\* Moderator.objects.create(forum=f, user=u)
ModeratorCreate(f, u) ==
    /\ [forum |-> f, user |-> u] \notin moderator
    /\ moderator' = moderator \cup {[forum |-> f, user |-> u]}
    /\ last' = [Call("Moderator.create") EXCEPT !.forum = f, !.user = u]
    /\ UNCHANGED <<moderator_ids, forum, topic, post, postdeletion,
                   subscription, topicredirection, topicreadtracker,
                   forumreadtracker, now, pc, local>>

\* moderator.delete() of the row r
ModeratorDelete(r) ==
    /\ moderator' = moderator \ {r}
    /\ last' = [Call("Moderator.delete") EXCEPT !.forum = r.forum,
                                                !.user = r.user]
    /\ UNCHANGED <<moderator_ids, forum, topic, post, postdeletion,
                   subscription, topicredirection, topicreadtracker,
                   forumreadtracker, now, pc, local>>

\* forum.is_moderated_by(user) is called for forum f.
ForumModeratedBy(f, user) ==
    LET rows == GetModeratorIdsByForum(moderator_ids, moderator)
    IN /\ last' = [Call("Forum.is_moderated_by") EXCEPT
                      !.forum = f, !.user = user,
                      !.flag = moderator_ids.cached,
                      !.result = ForumIsModeratedBy(rows, f, user)]
       /\ moderator_ids' = CacheAfter(ReadsModeratorIds(user))
       /\ UNCHANGED <<forum, topic, post, postdeletion, subscription,
                      topicredirection, topicreadtracker, forumreadtracker,
                      moderator, now, pc, local>>

InitModerator ==
    /\ forum = <<NewForum(None, FALSE, FALSE), NewForum(None, FALSE, FALSE)>>
    /\ topic = <<>>
    /\ post = <<>>
    /\ postdeletion = {}
    /\ subscription = {}
    /\ topicredirection = {}
    /\ topicreadtracker = {}
    /\ forumreadtracker = {}
    /\ moderator = {}
    /\ moderator_ids = NoCache
    /\ now = 1
    /\ last = NoCall
    /\ pc = <<>>
    /\ local = <<>>

NextModerator ==
    \/ \E f \in DOMAIN forum, u \in UserIds : ModeratorCreate(f, u)
    \/ \E r \in moderator : ModeratorDelete(r)
    \/ \E f \in DOMAIN forum,
          user \in Requesters
                    \cup {[pk |-> u, is_authenticated |-> TRUE,
                            is_staff |-> FALSE, is_superuser |-> FALSE] :
                              u \in UserIds} :
          ForumModeratedBy(f, user)

SpecModerator == InitModerator /\ [][NextModerator]_vars

(***************************************************************************)
(* A topic deleted and undeleted again: the posts of topic 1 are saved and *)
(* soft-deleted one by one, with or without a deleting user, and the topic *)
(* is soft-deleted and undeleted.  When the topic is deleted, local keeps  *)
(* the deleted flags as they were before the call.                         *)
(***************************************************************************)

\* Topic.mark_as_deleted() called for topic t, the deleted flags of before
\* kept in local.
TopicDeleteNoting(t) ==
    LET r == TopicMarkAsDeleted(forum, topic, post, t)
    IN /\ post' = r.post
       /\ topic' = r.topic
       /\ forum' = r.forum
       /\ last' = [Call("Topic.mark_as_deleted") EXCEPT
                      !.topic = t, !.raised = r.raised]
       /\ local' = [topic |-> topic[t].deleted,
                    post |-> [p \in DOMAIN post |-> post[p].deleted]]
       /\ UNCHANGED <<moderator, moderator_ids,
                      postdeletion, subscription, topicredirection,
                      topicreadtracker, forumreadtracker, now, pc>>

NextUndelete ==
    \/ \E t \in DOMAIN topic, u \in UserIds : PostSaveNew(t, u, FALSE)
    \/ \E p \in DOMAIN post, u \in {None, 1} : PostMarkAsDeleted(p, u)
    \/ \E t \in DOMAIN topic : TopicDeleteNoting(t)
    \/ \E t \in DOMAIN topic : TopicUndelete(t)

SpecUndelete == Init /\ [][NextUndelete]_vars

(***************************************************************************)
(* Merging two topics of one forum: topics 1 and 2 of forum 2, topic 2     *)
(* with or without a poll and with a subscription of user 1; posts are     *)
(* saved, user 1 reads the topics, and one topic absorbs the other.        *)
(***************************************************************************)

InitRedirect ==
    /\ forum = [f \in {1, 2} |->
                  IF f = 1 THEN [NewForum(None, FALSE, FALSE)
                                     EXCEPT !.forum_count = 1]
                  ELSE NewForum(1, FALSE, FALSE)]
    /\ \E poll \in {None, 1} :
          topic = [t \in TopicIds |->
                      IF t = 1 THEN NewTopic(2, 1)
                      ELSE [NewTopic(2, 2) EXCEPT !.poll = poll]]
    /\ post = <<>>
    /\ postdeletion = {}
    /\ subscription = {[topic |-> 2, user |-> 1, sent |-> FALSE]}
    /\ topicredirection = {}
    /\ topicreadtracker = {}
    /\ forumreadtracker = {}
    /\ moderator = {}
    /\ moderator_ids = NoCache
    /\ now = 1
    /\ last = NoCall
    /\ pc = <<>>
    /\ local = <<>>

NextRedirect ==
    \/ \E t \in DOMAIN topic : PostSaveNew(t, 1, FALSE)
    \/ \E t \in DOMAIN topic : TopicMarkAsRead(t, 1)
    \/ \E a \in DOMAIN topic, b \in DOMAIN topic : TopicAbsorb(a, b)

SpecRedirect == InitRedirect /\ [][NextRedirect]_vars

(***************************************************************************)
(* Poll votes: poll 1 of topic 1 with the answers 1 and 2.  local holds    *)
(* the Poll row (poll), the PollAnswer rows (pollanswer), the              *)
(* PollAnswerUser rows (pollansweruser) and the key of the next            *)
(* PollAnswerUser row (next).                                              *)
(***************************************************************************)

\* The most PollAnswerUser rows ever created.
MaxVotes == 3

\* BasePollAnswer.votes: self.users.count()
PollAnswerVotes(V, a) ==
    Cardinality({v \in DOMAIN V : V[v].poll_answer = a})

\* BasePoll.poll_votes: the sum of user_count over the answers of the poll.
PollVotes(A, poll) ==
    SetSum({a \in DOMAIN A : A[a].poll = poll},
           [a \in DOMAIN A |-> A[a].user_count])

\* BasePollAnswer.votes_percent, with poll_votes read when it is called.
\* For the counts of the model int(1.0 * votes / poll_votes * 100) is the
\* integer quotient.
PollAnswerVotesPercent(A, V, a) ==
    LET poll_votes == PollVotes(A, A[a].poll)
    IN IF poll_votes > 0 THEN (PollAnswerVotes(V, a) * 100) \div poll_votes
       ELSE 0

\* BasePollAnswer.compute(commit=True) on answer a.
PollAnswerCompute(A, V, a) ==
    [A EXCEPT ![a].user_count = PollAnswerVotes(V, a)]

\* BasePoll.mark_updated: the poll and the topics of the poll get the time.
PollMarkUpdated(T, poll, time) ==
    [t \in DOMAIN T |->
        IF T[t].poll = poll THEN [T[t] EXCEPT !.updated = time] ELSE T[t]]

\* PollAnswerUser(poll_answer=a, user=u).save(): the row is inserted,
\* post_save computes the answer, and save marks the poll updated.
PollAnswerUserSaveNew(a, u) ==
    LET id == local.next
        V1 == local.pollansweruser @@ (id :> [poll_answer |-> a, user |-> u])
        A1 == PollAnswerCompute(local.pollanswer, V1, a)
    IN /\ id <= MaxVotes
       /\ local' = [local EXCEPT !.pollansweruser = V1, !.pollanswer = A1,
                                 !.poll.updated = now, !.next = id + 1]
       /\ topic' = PollMarkUpdated(topic, A1[a].poll, now)
       /\ last' = [Call("PollAnswerUser.save") EXCEPT
                      !.other = id, !.post = a, !.flag = TRUE]
       /\ UNCHANGED <<moderator, moderator_ids, forum, post, postdeletion,
                      subscription, topicredirection, topicreadtracker,
                      forumreadtracker, now, pc>>

\* vote.poll_answer = a; vote.save() on the stored row v: the row is
\* updated, post_save computes the answer the instance now has, and save
\* marks the poll updated.
PollAnswerUserSaveStored(v, a) ==
    LET V1 == [local.pollansweruser EXCEPT ![v].poll_answer = a]
        A1 == PollAnswerCompute(local.pollanswer, V1, a)
    IN /\ local' = [local EXCEPT !.pollansweruser = V1, !.pollanswer = A1,
                                 !.poll.updated = now]
       /\ topic' = PollMarkUpdated(topic, A1[a].poll, now)
       /\ last' = [Call("PollAnswerUser.save") EXCEPT
                      !.other = v, !.post = a, !.flag = FALSE]
       /\ UNCHANGED <<moderator, moderator_ids, forum, post, postdeletion,
                      subscription, topicredirection, topicreadtracker,
                      forumreadtracker, now, pc>>

\* vote.delete() on the stored row v: the row is deleted and post_delete
\* computes its answer.
PollAnswerUserDelete(v) ==
    LET a == local.pollansweruser[v].poll_answer
        V1 == [w \in DOMAIN local.pollansweruser \ {v} |->
                  local.pollansweruser[w]]
        A1 == PollAnswerCompute(local.pollanswer, V1, a)
    IN /\ local' = [local EXCEPT !.pollansweruser = V1, !.pollanswer = A1]
       /\ last' = [Call("PollAnswerUser.delete") EXCEPT
                      !.other = v, !.post = a]
       /\ UNCHANGED topic
       /\ UNCHANGED <<moderator, moderator_ids, forum, post, postdeletion,
                      subscription, topicredirection, topicreadtracker,
                      forumreadtracker, now, pc>>

InitPoll ==
    /\ forum = <<NewForum(None, FALSE, FALSE)>>
    /\ topic = <<[NewTopic(1, 1) EXCEPT !.poll = 1]>>
    /\ post = <<>>
    /\ postdeletion = {}
    /\ subscription = {}
    /\ topicredirection = {}
    /\ topicreadtracker = {}
    /\ forumreadtracker = {}
    /\ moderator = {}
    /\ moderator_ids = NoCache
    /\ now = 1
    /\ last = NoCall
    /\ pc = <<>>
    /\ local = [poll |-> [updated |-> None],
                pollanswer |-> <<[poll |-> 1, user_count |-> 0],
                                 [poll |-> 1, user_count |-> 0]>>,
                pollansweruser |-> <<>>,
                next |-> 1]

NextPoll ==
    \/ \E a \in DOMAIN local.pollanswer, u \in UserIds :
          PollAnswerUserSaveNew(a, u)
    \/ \E v \in DOMAIN local.pollansweruser, a \in DOMAIN local.pollanswer :
          PollAnswerUserSaveStored(v, a)
    \/ \E v \in DOMAIN local.pollansweruser : PollAnswerUserDelete(v)
    \/ Tick

SpecPoll == InitPoll /\ [][NextPoll]_vars

(***************************************************************************)
(* The last post of a forum: the posts of topic 1 of forum 2 are saved and *)
(* soft-deleted, the topic is soft-deleted and undeleted, and              *)
(* update_counters is called on the forums.                                *)
(***************************************************************************)

\* forum.update_counters() called for forum f.
ForumRecount(f) ==
    /\ forum' = ForumUpdateCounters(forum, topic, post, f, forum[f])
    /\ last' = [Call("Forum.update_counters") EXCEPT
                   !.forum = f, !.raised = ForumUpdateRaises(topic, post, f)]
    /\ UNCHANGED <<moderator, moderator_ids,
                   topic, post, postdeletion, subscription, topicredirection,
                   topicreadtracker, forumreadtracker, now, pc, local>>

NextLastPost ==
    \/ \E t \in DOMAIN topic, u \in UserIds, mod \in BOOLEAN :
          PostSaveNew(t, u, mod)
    \/ \E p \in DOMAIN post : PostMarkAsDeleted(p, None)
    \/ \E t \in DOMAIN topic : TopicDelete(t)
    \/ \E t \in DOMAIN topic : TopicUndelete(t)
    \/ \E f \in DOMAIN forum : ForumRecount(f)

SpecLastPost == Init /\ [][NextLastPost]_vars

(***************************************************************************)
(* Claims about the counters of a topic and of the forums above it         *)
(***************************************************************************)

\* C1: in every state reached by committed Post.save, Post.mark_as_deleted,
\* Post.mark_as_undeleted, Topic.mark_as_deleted and Topic.mark_as_undeleted
\* calls, each topic's stored post_count equals the number of its posts with
\* deleted=False and on_moderation=False.
C1_PostCountAlwaysVisibleCount ==
    \A t \in DOMAIN topic : topic[t].post_count = CountVisible(post, t)

\* C2: immediately after Topic.update_counters(commit=True) the topic's
\* post_count is the number of its posts with deleted=False and
\* on_moderation=False, and its member_count the number of distinct users
\* among exactly those posts.
C2_UpdateCountersCounts ==
    last.op = "Topic.update_counters" =>
        /\ topic[last.topic].post_count = CountVisible(post, last.topic)
        /\ topic[last.topic].member_count = CountMembers(post, last.topic)

\* C2 happens: update_counters has run on a topic with two visible posts of
\* one user and stored 2 and 1.
C2_Witness ==
    /\ last.op = "Topic.update_counters"
    /\ topic[last.topic].post_count = 2
    /\ topic[last.topic].member_count = 1

\* The posts of topic t that are on moderation and not deleted.
PendingPosts(P, t) ==
    {p \in DOMAIN P : P[p].topic = t /\ P[p].on_moderation /\ ~P[p].deleted}

\* The earliest-created post of topic t is on moderation.
EarliestOnModeration(P, t) ==
    \E p \in DOMAIN P :
        /\ P[p].topic = t
        /\ \A q \in DOMAIN P : P[q].topic = t => P[p].created <= P[q].created
        /\ P[p].on_moderation

\* C9: after Topic.update_counters the topic's on_moderation is one of the
\* three states: clean iff no post is on moderation and not deleted;
\* in-moderation iff there is such a post and either no visible post or the
\* earliest-created post is on moderation; has-posts-in-moderation otherwise.
C9_ModerationState ==
    last.op = "Topic.update_counters" =>
        LET t == last.topic
            m == topic[t].on_moderation
            pending == PendingPosts(post, t) # {}
            blocked == CountVisible(post, t) = 0 \/ EarliestOnModeration(post, t)
        IN /\ m \in {0, 1, 2}
           /\ m = 0 <=> ~pending
           /\ m = 1 <=> (pending /\ blocked)
           /\ m = 2 <=> (pending /\ ~blocked)

\* C9 happens: update_counters has left a topic in has-posts-in-moderation.
C9_Witness ==
    /\ last.op = "Topic.update_counters"
    /\ topic[last.topic].on_moderation = 2
    /\ PendingPosts(post, last.topic) # {}

RECURSIVE ForumsAbove(_, _)
\* The ancestors of forum f.
ForumsAbove(F, f) ==
    IF F[f].forum_id = 0 THEN {}
    ELSE {F[f].forum_id} \cup ForumsAbove(F, F[f].forum_id)

\* What C4 promises of a step that saved a new visible post into topic t:
\* post_count grows by one in the topic, its forum and the forums above,
\* and stays as it was in every other forum.
SaveCountedOnce(t) ==
    LET f == topic[t].forum
        up == {f} \cup ForumsAbove(forum, f)
    IN /\ topic'[t].post_count = topic[t].post_count + 1
       /\ \A g \in DOMAIN forum :
             forum'[g].post_count =
                 forum[g].post_count + (IF g \in up THEN 1 ELSE 0)

\* The step saved a new post, not on moderation, from a state in which
\* every counter was consistent.
SavedNewVisiblePost ==
    /\ last'.op = "Post.save"
    /\ last'.flag
    /\ last'.result
    /\ Cardinality(DOMAIN post') = Cardinality(DOMAIN post) + 1
    /\ AllConsistent(forum, topic, post)

\* C4 as stated: from a consistent state, saving one new visible post into
\* a topic of forum f adds exactly one to the post_count of the topic, of
\* f and of every ancestor of f, and leaves every other forum's unchanged.
C4_SaveAddsOneEverywhere ==
    [][SavedNewVisiblePost => SaveCountedOnce(last'.topic)]_vars

\* C4 amended: the same, for a topic that Topic.visible() contains before
\* and after the save.
C4_SaveAddsOneWhenTopicVisible ==
    [][(/\ SavedNewVisiblePost
        /\ InTopicVisible(topic, last'.topic)
        /\ InTopicVisible(topic', last'.topic))
       => SaveCountedOnce(last'.topic)]_vars

\* C4 happens: a second visible post was saved from a consistent state into
\* a topic that was and is visible, and the root forum counts both.
C4_Witness ==
    /\ last.op = "Post.save"
    /\ last.flag /\ last.result /\ last.consistent /\ last.visible
    /\ InTopicVisible(topic, last.topic)
    /\ topic[last.topic].post_count = 2
    /\ forum[1].post_count = 2

(***************************************************************************)
(* Claims about the counts of the forum tree                               *)
(***************************************************************************)

\* C3: after Forum.compute(commit=True) on forum f, f.post_count is the sum
\* of post_count over f's visible topics plus the stored post_count of its
\* child forums, f.topic_count the number of its visible topics plus the
\* children's topic_count, and f.forum_count the number of child forums
\* plus the children's forum_count.
C3_ComputeSums ==
    last.op = "Forum.compute" => ForumConsistent(forum, topic, last.forum)

\* C3 happens: compute has run on a forum with a child forum that holds a
\* topic with a post.
C3_Witness ==
    /\ last.op = "Forum.compute"
    /\ forum[last.forum].forum_count >= 1
    /\ forum[last.forum].post_count >= 1
    /\ \E c \in DOMAIN forum : forum[c].forum_id = last.forum
                               /\ forum[c].post_count >= 1

\* C5: forum creations, deletions and re-parentings keep every forum's
\* forum_count, topic_count and post_count equal to the sums over its
\* child forums and visible topics; in particular, after a forum was moved
\* from parent A to parent B in a state where all forums are consistent,
\* A and B are both consistent.
C5_MoveKeepsBothParents ==
    [][(last'.op = "Forum.move" /\ last'.flag /\ last'.other # 0
        /\ \A f \in DOMAIN forum : ForumConsistent(forum, topic, f))
       => /\ ForumConsistent(forum', topic', forum[last'.forum].forum_id)
          /\ ForumConsistent(forum', topic', last'.other)]_vars

(***************************************************************************)
(* Claims about forum visibility                                           *)
(***************************************************************************)

\* C8: f.is_accessible_by(u, hidden) is true only if it is true for every
\* ancestor of f; a forum below a staff-only ancestor is inaccessible to a
\* non-staff user, and with hidden=True a forum below a hidden ancestor is
\* inaccessible to an unauthenticated user.
C8_AccessibleOnlyBelowAccessible ==
    last.op = "Forum.is_accessible_by" =>
        LET above == ForumsAbove(forum, last.forum)
        IN /\ last.result =>
                 \A a \in above :
                     ForumIsAccessibleBy(forum, a, last.user, last.flag)
           /\ ((\E a \in above : forum[a].staff) /\ ~last.user.is_staff)
                 => ~last.result
           /\ (last.flag /\ (\E a \in above : forum[a].hidden)
               /\ ~last.user.is_authenticated) => ~last.result

\* C8 happens: a forum whose own flags admit the user is refused because of
\* a staff-only grandparent.
C8_Witness ==
    /\ last.op = "Forum.is_accessible_by"
    /\ ~last.result
    /\ ~last.user.is_staff /\ last.user.is_authenticated
    /\ ~forum[last.forum].staff
    /\ forum[last.forum].forum_id # 0
    /\ ~forum[forum[last.forum].forum_id].staff
    /\ \E a \in ForumsAbove(forum, last.forum) : forum[a].staff

(***************************************************************************)
(* Claims about read tracking                                              *)
(***************************************************************************)

\* The trackers of user u once (topic t, user u) has been stamped.
StampedTrackers(t, u) ==
    {r \in topicreadtracker : ~(r.topic = t /\ r.user = u)}
        \cup {[topic |-> t, user |-> u, time_stamp |-> now]}

\* No topic of forum f is unread for user u under trackers R and the forum
\* mark (None when the user had no ForumReadTracker).
NothingUnread(R, f, u, mark) ==
    \A t \in DOMAIN topic :
        topic[t].forum = f =>
            \/ /\ topic[t].updated # None
               /\ \E r \in R : r.topic = t /\ r.user = u
                               /\ r.time_stamp > topic[t].updated
            \/ mark # None /\ ~(topic[t].updated # None
                                /\ topic[t].updated > mark)

\* C6: when Topic.mark_as_read(user) records a read and afterwards no topic
\* of the forum is unread for the user, then on return the user has no
\* TopicReadTracker for any topic of the forum and has a ForumReadTracker
\* for the forum stamped with the current time.
C6_NothingUnreadClearsTrackers ==
    [][(/\ last'.op = "Topic.mark_as_read"
        /\ last'.flag
        /\ NothingUnread(StampedTrackers(last'.topic, last'.user),
                         last'.forum, last'.user, last'.other))
       => /\ \A r \in topicreadtracker' :
                 ~(r.user = last'.user
                   /\ topic[r.topic].forum = last'.forum)
          /\ \E m \in forumreadtracker' :
                 /\ m.forum = last'.forum /\ m.user = last'.user
                 /\ m.time_stamp = now
          /\ Cardinality({m \in forumreadtracker' :
                 m.forum = last'.forum /\ m.user = last'.user}) = 1]_vars

\* C6 happens: a user with an older forum mark and a tracker on the other
\* topic reads the last unread topic; the trackers are gone and the mark is
\* stamped now.
C6_Witness ==
    /\ last.op = "Topic.mark_as_read"
    /\ last.flag /\ last.result
    /\ last.other # 0 /\ last.other < now
    /\ \A t \in DOMAIN topic : topic[t].updated # 0
    /\ topicreadtracker = {}
    /\ \E m \in forumreadtracker :
          m.forum = last.forum /\ m.user = last.user /\ m.time_stamp = now

\* C7: Topic.mark_as_read(user) for a user without a ForumReadTracker for
\* the topic's forum raises no error, and if the topic has an updated time
\* it ends with a TopicReadTracker for (topic, user) stamped now or with a
\* newly created ForumReadTracker.
C7_MissingForumMarkIsNeverRead ==
    (last.op = "Topic.mark_as_read" /\ last.other = 0) =>
        /\ ~last.raised
        /\ topic[last.topic].updated # 0 =>
              \/ [topic |-> last.topic, user |-> last.user,
                  time_stamp |-> now] \in topicreadtracker
              \/ \E m \in forumreadtracker :
                    /\ m.forum = last.forum /\ m.user = last.user
                    /\ m.time_stamp = now

\* C7 happens: a user without a forum mark reads one of two updated topics
\* and gets a topic tracker stamped now.
C7_Witness ==
    /\ last.op = "Topic.mark_as_read"
    /\ last.other = 0 /\ last.flag /\ ~last.result /\ ~last.raised
    /\ [topic |-> last.topic, user |-> last.user, time_stamp |-> now]
           \in topicreadtracker
    /\ \A m \in forumreadtracker : m.user # last.user

(***************************************************************************)
(* Claims about concurrent saves                                           *)
(***************************************************************************)

\* C10: when two concurrent Post.save calls of new visible posts in one
\* topic have both completed, whatever the interleaving of their count
\* queries and counter writes, the topic's stored post_count is the number
\* of its visible posts and the forum's post_count is the sum over its
\* visible topics and child forums.
C10_ConcurrentSavesKeepCounts ==
    (\A i \in Procs : pc[i] = "done") =>
        /\ topic[1].post_count = CountVisible(post, 1)
        /\ LET f == topic[1].forum
               vis == {t \in DOMAIN topic :
                          topic[t].forum = f /\ InTopicVisible(topic, t)}
               kids == {c \in DOMAIN forum : forum[c].forum_id = f}
           IN forum[f].post_count =
                  SumOver(topic, vis, "post_count")
                  + SumOver(forum, kids, "post_count")

(***************************************************************************)
(* Claims about the view decorators                                        *)
(***************************************************************************)

\* C11: a view wrapped by user_passes_test(test_func) is invoked, once,
\* with the original request and arguments and its result returned
\* unchanged, exactly when test_func(request.user) is true; otherwise the
\* view is not invoked and the response is the redirect to the log-in
\* page.  For login_required the test is request.user.is_authenticated.
C11_ViewInvokedIffTestPasses ==
    last.op \in {"user_passes_test", "login_required"} =>
        LET user == local.request.user
            passes == IF last.op = "login_required"
                      THEN user.is_authenticated
                      ELSE \/ local.test = "is_authenticated"
                              /\ user.is_authenticated
                           \/ local.test = "is_staff" /\ user.is_staff
                           \/ local.test = "is_superuser"
                              /\ user.is_superuser
        IN IF passes
           THEN /\ local.calls = <<[view |-> local.view,
                                    request |-> local.request,
                                    args |-> local.args]>>
                /\ local.response.kind = "response"
                /\ local.response.view = local.view
                /\ local.response.request = local.request
                /\ local.response.args = local.args
           ELSE /\ local.calls = <<>>
                /\ local.response.kind = "redirect_to_login"

\* C11 happens: an authenticated user without the staff flag is sent to
\* the log-in page by a staff-only view, which is not called.
C11_Witness ==
    /\ last.op = "user_passes_test"
    /\ local.test = "is_staff"
    /\ local.request.user.is_authenticated
    /\ local.calls = <<>>
    /\ local.response.kind = "redirect_to_login"
    /\ local.response.next = local.request.uri

(***************************************************************************)
(* Claims about topic visibility under moderation                          *)
(***************************************************************************)

\* C12: in every state reached by committed post saves and deletions, a
\* topic with at least one non-deleted post on moderation and no visible
\* post is absent from Topic.visible(), and a topic in state
\* has-posts-in-moderation that is neither deleted nor a redirect is in
\* Topic.visible().
C12_ModeratedTopicsHidden ==
    \A t \in DOMAIN topic :
        /\ (/\ \E p \in DOMAIN post : /\ post[p].topic = t
                                      /\ post[p].on_moderation
                                      /\ ~post[p].deleted
            /\ ~\E p \in DOMAIN post : /\ post[p].topic = t
                                       /\ ~post[p].on_moderation
                                       /\ ~post[p].deleted)
              => t \notin VisibleTopics(topic, topic[t].forum)
        /\ (/\ topic[t].on_moderation = MODERATION_HAS_POSTS_IN_MODERATION
            /\ ~topic[t].deleted
            /\ ~topic[t].redirect)
              => t \in VisibleTopics(topic, topic[t].forum)

\* C12 happens: after a post was deleted the topic, not deleted itself,
\* has a post on moderation and no visible post, and is in moderation.
C12_Witness ==
    /\ last.op = "Post.mark_as_deleted"
    /\ ~topic[1].deleted
    /\ topic[1].on_moderation = 1
    /\ \E p \in DOMAIN post : post[p].on_moderation /\ ~post[p].deleted
    /\ \A p \in DOMAIN post : post[p].on_moderation \/ post[p].deleted
    /\ \E p \in DOMAIN post : post[p].deleted

(***************************************************************************)
(* Claims about topic and post visibility                                  *)
(***************************************************************************)

\* User u moderates forum f: a superuser, a staff member, or an
\* authenticated user with a Moderator row for the forum.
Moderates(u, f) ==
    \/ u.is_superuser
    \/ u.is_staff
    \/ u.is_authenticated /\ \E m \in moderator : m.forum = f /\ m.user = u.pk

\* C13: Topic.is_accessible_by(user) is false whenever the topic is in
\* moderation or deleted and the user is neither a moderator of the
\* topic's forum nor the authenticated author of the topic; in every other
\* case it equals forum.is_accessible_by(user), so a topic is never
\* accessible to a user who cannot access its forum.
C13_TopicAccessible ==
    last.op = "Topic.is_accessible_by" =>
        LET row == topic[last.topic]
            u == last.user
            author == u.is_authenticated /\ u.pk = row.user
            below == ForumIsAccessibleBy(forum, row.forum, u, TRUE)
        IN /\ IF /\ (row.on_moderation = 1 \/ row.deleted)
                 /\ ~Moderates(u, row.forum)
                 /\ ~author
              THEN last.result = FALSE
              ELSE last.result = below
           /\ last.result => below

\* C13 happens: an authenticated user who is neither moderator nor author
\* is refused a deleted topic of a forum that user can access.
C13_Witness ==
    /\ last.op = "Topic.is_accessible_by"
    /\ ~last.result
    /\ topic[last.topic].deleted
    /\ topic[last.topic].on_moderation # 1
    /\ last.user.is_authenticated
    /\ last.user.pk # topic[last.topic].user
    /\ ForumIsAccessibleBy(forum, topic[last.topic].forum, last.user, TRUE)

\* C14: with premoderation enabled, Post.is_accessible_by(user) is false
\* for a post on moderation when the user is neither a moderator of the
\* topic's forum nor the authenticated author of the post; otherwise it
\* equals topic.is_accessible_by(user).
C14_PostAccessible ==
    last.op = "Post.is_accessible_by" =>
        LET row == post[last.post]
            u == last.user
            author == u.is_authenticated /\ u.pk = row.user
            above == TopicIsAccessibleBy(forum, topic, moderator, row.topic, u)
        IN IF /\ last.flag
              /\ row.on_moderation
              /\ ~Moderates(u, topic[row.topic].forum)
              /\ ~author
           THEN last.result = FALSE
           ELSE last.result = above

\* C14 happens: with premoderation, a post on moderation is refused to an
\* authenticated user who is not its author, in a topic that user can
\* access.
C14_Witness ==
    /\ last.op = "Post.is_accessible_by"
    /\ last.flag
    /\ ~last.result
    /\ post[last.post].on_moderation
    /\ last.user.is_authenticated
    /\ last.user.pk # post[last.post].user
    /\ TopicIsAccessibleBy(forum, topic, moderator, last.topic, last.user)

(***************************************************************************)
(* Claims about soft deletion                                              *)
(***************************************************************************)

\* Post p is the earliest-created visible post of its topic.
EarliestVisible(p) ==
    /\ ~post[p].deleted /\ ~post[p].on_moderation
    /\ \A q \in DOMAIN post :
          (post[q].topic = post[p].topic /\ ~post[q].deleted
           /\ ~post[q].on_moderation) => post[p].created <= post[q].created

\* C15: Post.mark_as_deleted(commit=True) on the earliest-created visible
\* post of a topic soft-deletes the whole topic: afterwards the topic has
\* deleted=True, every post of the topic that was visible before the call
\* has deleted=True and the topic is absent from Topic.visible(); on any
\* other post it changes the deleted flag of that post only.
C15_DeletingHeadDeletesTopic ==
    [][last'.op = "Post.mark_as_deleted" =>
          LET p == last'.post
              t == post[p].topic
          IN IF EarliestVisible(p)
             THEN /\ topic'[t].deleted
                  /\ \A q \in DOMAIN post :
                        (post[q].topic = t /\ ~post[q].deleted
                         /\ ~post[q].on_moderation) => post'[q].deleted
                  /\ ~(~topic'[t].deleted /\ ~topic'[t].redirect
                       /\ topic'[t].on_moderation # 1)
             ELSE /\ post' = [post EXCEPT ![p].deleted = TRUE]
                  /\ topic' = topic]_vars

\* C15 happens: the earlier of two visible posts was deleted and took the
\* topic and the other post with it.
C15_Witness ==
    /\ last.op = "Post.mark_as_deleted"
    /\ last.flag
    /\ last.post = 1
    /\ topic[1].deleted
    /\ Cardinality(DOMAIN post) = 2
    /\ \A p \in DOMAIN post : post[p].deleted /\ ~post[p].on_moderation
    /\ postdeletion = {}

(***************************************************************************)
(* Claims about merging topics                                             *)
(***************************************************************************)

\* C16: after a.absorb(b) for two distinct topics, every post that belonged
\* to a or b belongs to a, b has no posts and post_count 0, and
\* a.post_count is the number of visible posts a and b had together before
\* the call.
C16_AbsorbMovesPosts ==
    [][(last'.op = "Topic.absorb" /\ ~last'.raised) =>
          LET a == last'.topic
              b == last'.other
          IN /\ a # b
             /\ DOMAIN post' = DOMAIN post
             /\ \A p \in DOMAIN post :
                   IF post[p].topic \in {a, b} THEN post'[p].topic = a
                   ELSE post'[p].topic = post[p].topic
             /\ \A p \in DOMAIN post' : post'[p].topic # b
             /\ topic'[b].post_count = 0
             /\ topic'[a].post_count =
                   Cardinality({p \in DOMAIN post :
                                   /\ post[p].topic \in {a, b}
                                   /\ ~post[p].deleted
                                   /\ ~post[p].on_moderation})]_vars

\* C16 happens: a topic with one visible post absorbed a topic with one
\* visible post and counts two.
C16_Witness ==
    /\ last.op = "Topic.absorb"
    /\ ~last.raised
    /\ topic[last.topic].post_count = 2
    /\ topic[last.other].post_count = 0
    /\ topic[last.topic].last_post # topic[last.topic].first_post
    /\ topic[last.other].last_post # 0
    /\ \A p \in DOMAIN post : post[p].topic = last.topic

(***************************************************************************)
(* Claims about the termination of Forum.compute                           *)
(***************************************************************************)

RECURSIVE PathToRoot(_, _)
\* The forum f and the forums above it, from f up to the root.
PathToRoot(F, f) ==
    IF F[f].forum_id = 0 THEN <<f>>
    ELSE <<f>> \o PathToRoot(F, F[f].forum_id)

\* C17: for a forum whose parent chain is a finite tree path, Forum.compute
\* terminates and recomputes the forum and each of its ancestors exactly
\* once, from the forum up to the root.
C17_ComputeTerminatesOnPath ==
    /\ []((pc = "idle" /\ last.op = "Forum.compute") =>
             /\ local.visited = PathToRoot(forum, last.forum)
             /\ \A g \in DOMAIN forum :
                   (\E i \in 1..Len(local.visited) : local.visited[i] = g)
                       => ForumConsistent(forum, topic, g))
    /\ []((pc = "compute") =>
             /\ Len(local.visited) < Cardinality(DOMAIN forum)
             /\ \A i, j \in 1..Len(local.visited) :
                   local.visited[i] = local.visited[j] => i = j)
    /\ ((pc = "compute") ~> (pc = "idle" /\ last.op = "Forum.compute"))

\* C17 happens: compute on the lowest forum of a chain of three has
\* returned after three saves.
C17_Witness ==
    /\ pc = "idle"
    /\ last.op = "Forum.compute"
    /\ last.forum = 3
    /\ local.visited = <<3, 2, 1>>
    /\ forum[1].post_count = 1

(***************************************************************************)
(* Claims about marking forums as read                                     *)
(***************************************************************************)

\* C18: after ForumReadTracker.objects.mark_as_read(user, forums) every
\* forum of the list has a ForumReadTracker of the user: a forum that had
\* none gets exactly one new row, a forum that had one gets its time_stamp
\* set to the current time, the returned list holds exactly the newly
\* created rows, and the trackers of other users and of forums not in the
\* list are unchanged.
C18_MarkForumsAsRead ==
    [][last'.op = "ForumReadTracker.mark_as_read" =>
          LET u == last'.user
              fs == {last'.other[i] : i \in 1..Len(last'.other)}
              old == forumreadtracker
              new == forumreadtracker'
              had(f) == {m \in old : m.forum = f /\ m.user = u}
              has(f) == {m \in new : m.forum = f /\ m.user = u}
              keys == {m.id : m \in old}
          IN /\ \A f \in fs :
                   IF had(f) = {}
                   THEN /\ Cardinality(has(f)) = 1
                        /\ \A m \in has(f) : m.time_stamp = now
                   ELSE /\ {m.id : m \in has(f)} = {m.id : m \in had(f)}
                        /\ \A m \in has(f) : m.time_stamp = now
             /\ last'.result = {m \in new : m.id \notin keys}
             /\ \A m \in old : (m.user # u \/ m.forum \notin fs) => m \in new
             /\ \A m \in new : (m.user # u \/ m.forum \notin fs) => m \in old
      ]_vars

\* C19: Topic.mark_as_read(user) creates, modifies or deletes no
\* TopicReadTracker or ForumReadTracker row when the topic has no updated
\* time or when the user's ForumReadTracker for the topic's forum has a
\* time_stamp not earlier than the topic's updated time; its only effect
\* is then to reset sent=False on the user's subscriptions to the topic.
C19_NothingToRecordChangesNoTracker ==
    [][(/\ last'.op = "Topic.mark_as_read"
        /\ \/ topic[last'.topic].updated = 0
           \/ \E m \in forumreadtracker :
                 /\ m.forum = topic[last'.topic].forum
                 /\ m.user = last'.user
                 /\ m.time_stamp >= topic[last'.topic].updated)
       => /\ topicreadtracker' = topicreadtracker
          /\ forumreadtracker' = forumreadtracker
          /\ subscription' =
                {IF s.topic = last'.topic /\ s.user = last'.user
                 THEN [topic |-> s.topic, user |-> s.user, sent |-> FALSE]
                 ELSE s : s \in subscription}
          /\ forum' = forum /\ topic' = topic /\ post' = post]_vars

\* C19 happens: user 1, whose forum mark is as late as the update of topic
\* 1 and who holds a tracker on the other topic, reads topic 1; only the
\* subscription was reset.
C19_Witness ==
    /\ last.op = "Topic.mark_as_read"
    /\ last.topic = 1 /\ last.user = 1
    /\ ~last.flag
    /\ topic[1].updated # 0
    /\ last.other >= topic[1].updated
    /\ \E r \in topicreadtracker : r.user = 1 /\ r.topic = 2
    /\ \A s \in subscription : ~s.sent

\* The field of the instance that the last call of get_body_html or
\* get_body_text reads.
BodyField == IF last.op = "get_body_html" THEN "body_html" ELSE "body_text"

\* C20: get_body_html and get_body_text return the stored rendering
\* without rendering or scheduling anything when it is not None and force
\* is false; when it is None (or force is true) and asynchronous is true
\* they schedule one generate_markup task, return None and leave body_html
\* and body_text unchanged; when asynchronous is false they render and
\* return the fresh value.
C20_GetBody ==
    [][last'.op \in {"get_body_html", "get_body_text"} =>
       LET field == IF last'.op = "get_body_html" THEN "body_html"
                    ELSE "body_text"
           stored == local.item[field]
           fresh == [body_html |-> Markup(local.item.body),
                     body_text |-> Unescape(StripTags(Markup(local.item.body)))]
       IN IF stored # NoText /\ ~local'.force
          THEN /\ local'.result = stored
               /\ local'.rendered = 0
               /\ local'.tasks = local.tasks
               /\ local'.item = local.item
               /\ local'.row = local.row
          ELSE IF local'.asynchronous
          THEN /\ local'.result = NoText
               /\ local'.rendered = 0
               /\ local'.tasks = Append(local.tasks, local.item.pk)
               /\ local'.item = local.item
               /\ local'.row = local.row
          ELSE /\ local'.result = fresh[field]
               /\ local'.rendered = 1
               /\ local'.item.body_html = fresh.body_html
               /\ local'.item.body_text = fresh.body_text
               /\ local'.tasks = local.tasks]_vars

\* C20 happens: a forced call that is not asynchronous on an item whose
\* stored rendering was made of an earlier body rendered again and returned
\* the rendering of the present body, which differs from the stored row's.
C20_Witness ==
    /\ last.op \in {"get_body_html", "get_body_text"}
    /\ local.force /\ ~local.asynchronous
    /\ local.rendered = 1
    /\ local.row[BodyField] # NoText
    /\ local.result # local.row[BodyField]
    /\ local.result = local.item[BodyField]
    /\ local.tasks # <<>>

\* C21: every topic returned by Topic.objects.filter_by_user(user, forum=f)
\* satisfies topic.is_accessible_by(user), provided f.is_accessible_by(user)
\* holds; this is so for moderators, for authenticated non-moderators and
\* for anonymous users alike.
C21_FilteredTopicsAccessible ==
    (/\ last.op = "Topic.filter_by_user"
     /\ last.forum # 0
     /\ last.other = DOMAIN topic
     /\ ForumIsAccessibleBy(forum, last.forum, last.user, TRUE))
    => \A t \in last.result :
          TopicIsAccessibleBy(forum, topic,
                              GetModeratorIdsByForum(moderator_ids,
                                                     moderator),
                              t, last.user)

\* C22: for every forum without a parent, every user (any combination of
\* is_staff, is_superuser, is_authenticated) and each value of hidden, the
\* forum is contained in Forum.objects.filter_by_user(user, hidden) if and
\* only if forum.is_accessible_by(user, hidden) is true.
C22_FilterIffAccessible ==
    last.op = "Forum.filter_by_user"
    => \A f \in DOMAIN forum :
          forum[f].forum_id = 0
          => (f \in last.result
              <=> ForumIsAccessibleBy(forum, f, last.user, last.flag))

\* C23: for an authenticated user who is neither staff nor superuser, and
\* with no permission argument, Forum.is_moderated_by(user) returns true
\* exactly when a Moderator row for (forum, user) exists at the time of the
\* call, also when Moderator rows have been added or deleted since an
\* earlier is_moderated_by call.
C23_ModeratedByReadsRows ==
    (/\ last.op = "Forum.is_moderated_by"
     /\ last.user.is_authenticated
     /\ ~last.user.is_staff /\ ~last.user.is_superuser)
    => (last.result
        <=> [forum |-> last.forum, user |-> last.user.pk] \in moderator)

\* C24: Topic.mark_as_deleted followed by Topic.mark_as_undeleted on the
\* same topic restores the deleted flag of the topic and of every one of
\* its posts to the value it had before mark_as_deleted; in particular
\* posts that were individually deleted before the topic was deleted are
\* still deleted afterwards.  The topic is one that was not deleted before
\* and neither call raises.
C24_UndeleteRestoresFlags ==
    [][(/\ last.op = "Topic.mark_as_deleted"
        /\ last'.op = "Topic.mark_as_undeleted"
        /\ last'.topic = last.topic
        /\ ~local.topic
        /\ ~last.raised /\ ~last'.raised)
       => /\ topic'[last.topic].deleted = local.topic
          /\ \A p \in TopicPosts(post, last.topic) :
                post'[p].deleted = local.post[p]]_vars

\* C25: after a.absorb(b), b has redirect=True and is absent from
\* Topic.visible(), exactly one TopicRedirection from b to a exists with
\* type permanent when no redirection_type was given, b's subscriptions and
\* topic read trackers all point to a, and if b had a poll then a.poll is
\* that poll and b's stored poll is null.
C25_AbsorbRedirects ==
    [][(last'.op = "Topic.absorb" /\ ~last'.raised) =>
          LET a == last'.topic
              b == last'.other
              redirections == {x \in topicredirection' :
                                  x.from_topic = b /\ x.to_topic = a}
          IN /\ topic'[b].redirect
             /\ ~TopicIsVisible(topic'[b])
             /\ Cardinality(redirections) = 1
             /\ \A x \in redirections : x.type = TYPE_PERMANENT_REDIRECT
             /\ \A s \in subscription :
                   s.topic = b =>
                      [topic |-> a, user |-> s.user, sent |-> s.sent]
                          \in subscription'
             /\ \A s \in subscription' : s.topic # b
             /\ \A r \in topicreadtracker :
                   r.topic = b =>
                      [topic |-> a, user |-> r.user,
                       time_stamp |-> r.time_stamp] \in topicreadtracker'
             /\ \A r \in topicreadtracker' : r.topic # b
             /\ topic[b].poll # 0
                   => /\ topic'[a].poll = topic[b].poll
                      /\ topic'[b].poll = 0]_vars

\* C25 happens: topic 1 absorbed topic 2, which had the poll, the
\* subscription and a read tracker; topic 1 holds them now and topic 2
\* redirects to it.
C25_Witness ==
    /\ last.op = "Topic.absorb"
    /\ ~last.raised
    /\ last.topic = 1 /\ last.other = 2
    /\ topic[2].redirect
    /\ topic[1].poll = 1 /\ topic[2].poll = 0
    /\ \E s \in subscription : s.topic = 1
    /\ last.flag
    /\ \E r \in topicreadtracker : r.topic = 1
    /\ \E x \in topicredirection : x.from_topic = 2 /\ x.to_topic = 1

\* C26: after any sequence of PollAnswerUser saves and deletions, every
\* PollAnswer's stored user_count equals the number of PollAnswerUser rows
\* that reference it, so for a poll with at least one vote each answer's
\* votes_percent lies between 0 and 100 and the percentages of all its
\* answers sum to at most 100.
C26_UserCountIsVotes ==
    last.op \in {"PollAnswerUser.save", "PollAnswerUser.delete"}
    => LET A == local.pollanswer
           V == local.pollansweruser
       IN /\ \A a \in DOMAIN A : A[a].user_count = PollAnswerVotes(V, a)
          /\ PollVotes(A, 1) > 0
                => /\ \A a \in DOMAIN A :
                         /\ PollAnswerVotesPercent(A, V, a) >= 0
                         /\ PollAnswerVotesPercent(A, V, a) <= 100
                   /\ SetSum(DOMAIN A,
                             [a \in DOMAIN A |->
                                 PollAnswerVotesPercent(A, V, a)]) <= 100

\* C27: Forum.update_counters on a forum that has no visible topic leaves
\* the forum's updated, last_post and last_topic as they were;
\* consequently, after the last visible topic of a forum is soft-deleted,
\* the forum's last_post and last_topic still refer to the deleted topic.
\* "As they were" is as they are on the instance update_counters is called
\* on: the stored row, with updated set to the time of the save when the
\* call comes from the save of a new post.
C27_NoVisibleTopicKeepsLastPost ==
    [][(/\ last'.op \in {"Forum.update_counters", "Topic.mark_as_deleted",
                         "Topic.mark_as_undeleted", "Post.mark_as_deleted",
                         "Post.save"}
        /\ ~last'.raised)
       => /\ \A f \in DOMAIN forum :
                VisibleTopics(topic', f) = {}
                => /\ forum'[f].last_post = forum[f].last_post
                   /\ forum'[f].last_topic = forum[f].last_topic
                   /\ forum'[f].updated =
                         IF /\ last'.op = "Post.save" /\ last'.flag
                            /\ f = topic[last'.topic].forum
                         THEN now
                         ELSE forum[f].updated
          /\ \A t \in DOMAIN topic :
                (/\ last'.op \in {"Topic.mark_as_deleted",
                                  "Post.mark_as_deleted"}
                 /\ VisibleTopics(topic, topic[t].forum) = {t}
                 /\ topic'[t].deleted
                 /\ forum[topic[t].forum].last_topic = t)
                => /\ forum'[topic[t].forum].last_topic = t
                   /\ forum'[topic[t].forum].last_post # 0
                   /\ post'[forum'[topic[t].forum].last_post].topic = t]_vars

\* C27 happens: topic 1, the only visible topic of forum 2, was
\* soft-deleted with its posts; forum 2 has no visible topic and its
\* last_post and last_topic are still the deleted post and topic.
C27_Witness ==
    /\ last.op = "Topic.mark_as_deleted"
    /\ ~last.raised
    /\ topic[1].deleted
    /\ VisibleTopics(topic, 2) = {}
    /\ forum[2].last_topic = 1
    /\ forum[2].last_post # 0
    /\ post[forum[2].last_post].deleted
    /\ forum[2].post_count = 0

====
